---- MODULE Spec2Model ----
(***************************************************************************)
(* zendriver: the Browser session (start / stop), its target registry      *)
(* (Browser.targets) and the handlers that keep the registry in step with  *)
(* the browser's Target.* notifications.                                   *)
(*                                                                         *)
(* Source: src/zendriver/core/browser.py, src/zendriver/core/config.py.    *)
(* The Connection class (zendriver/core/connection.py) and the browser     *)
(* itself are not part of the sources; what the model needs of them (the   *)
(* notification stream, the reply to Target.getTargets, the reply to       *)
(* /json/version) is the environment of the model.                         *)
(*                                                                         *)
(* Further parts, each with a specification of its own: the Config and     *)
(* the arguments it gives the browser (config.py), the Config as the       *)
(* template of several Browsers (browser.py, config.py), CookieJar.save    *)
(* (browser.py), the event-type registry (src/scripts/_util_template.py)   *)
(* and the Connection's message ids and pending replies, which follow      *)
(* spec.md since the class is not among the sources.                       *)
(* Two more specifications of the Browser: the operations that need a      *)
(* started Browser, called before start() and after stop(), and the        *)
(* "for tab in browser" loops over a Browser (browser.py).                 *)
(***************************************************************************)
EXTENDS Naturals, Integers, Sequences, FiniteSets, TLC

\* ------------------------------------------------------------------ bounds
\* Browser objects that may exist (the second one is the instance that
\* start() makes through create() when the process has died, and the other
\* Browser of the two-browser specification).
Browsers == {"b1", "b2"}
\* target-ids the browser hands out over one run; ids are never reused
MaxTargets == 2
\* notifications in flight on the root Connection
MaxWire == 1
\* update_targets() calls made by the user (start() makes its own)
MaxUpdates == 1
\* start() calls per Browser object
MaxStarts == 2
\* Config.browser_connection_max_tries as configured for the run
MaxTries == 2
\* get() calls per Browser object
MaxGets == 2
\* arguments in Config._browser_args (the browser_args option and add_argument)
MaxArgs == 2
\* temporary profile directories made over one run
MaxDirs == 3
\* cookies the browser holds at a time
MaxCookies == 2
\* send() calls made on the Connections over one run
MaxSends == 3

Ids == 1..MaxTargets
\* the target-ids the browser gives to the targets made by Target.createTarget
WindowIds == (MaxTargets + 1)..(MaxTargets + MaxGets)
AllIds == Ids \cup WindowIds
Types == {"page", "iframe"}
Urls == {"about:blank", "https://example.com/"}
EventKinds == {"TargetInfoChanged", "TargetCreated", "TargetDestroyed", "TargetCrashed"}
NoOne == <<"free", "free">>

VARIABLES
    born,       \* Browser objects constructed so far
    result,     \* how the Browser's last start() ended, and what it did
    stp,        \* position of the Browser's stop() coroutine
    srvUp,      \* browser side: a browser answers at the Config's host and port
    config,     \* Browser.config: the Browser's own copy of the Config
    process,    \* Browser._process / _process_pid and the OS process behind it
    info,       \* Browser.info: the /json/version reply
    connection, \* Browser.connection: the root Connection
    handlers,   \* Browser.connection.handlers: event kinds with the registry handler
    spc,        \* position of the Browser's start() coroutine
    tries,      \* iterations of the polling loop of start() done so far
    starts,     \* start() calls made on the Browser
    profile,    \* Config.user_data_dir of the Browser's Config, and the directory
    srv,        \* browser side: the state of every target-id
    discover,   \* browser side: Target.setDiscoverTargets(discover=true) received
    wire,       \* frames sent by the browser, not yet routed: notifications and replies
    targets,    \* Browser.targets
    nextSerial, \* number of Tab objects the Browser has made
    hnd,        \* the target-event handler running on the receive path
    upd,        \* position of update_targets() and the getTargets reply it holds
    updCalls,   \* update_targets() calls made by the user
    mutex,      \* Browser._update_target_info_mutex: who holds it
    reported,   \* target-ids the registry was told of (TargetCreated, getTargets)
    gone,       \* target-ids with a handled TargetDestroyed / TargetCrashed
    getc,       \* position of the Browser's get() coroutine, and what its calls did
    objs,       \* the Config objects: the caller's and each Browser's deep copy
    cfgref,     \* Browser.config as a reference: the Config object it names
    dirs,       \* the profile directories: how many mkdtemp made, which ones are on disk
    launch,     \* what the Browser's start() passed to the browser process
    said,       \* the caller's last call on its Config and what it gave
    root,       \* "is_posix and is_root()" of the running process
    store,      \* browser side: the cookies of the browser
    files,      \* the session file CookieJar.save writes
    jar,        \* the Connection CookieJar finds, and what its last save() did
    _event_types_map, \* util._event_types_map: method name to event class
    _event_types,     \* util._event_types: the classes registered
    cstate,     \* Connection: new, open, closing or closed
    nextId,     \* the codec's message id counter
    pending,    \* Connection: the pending-reply table, message id to send
    sends,      \* the send() calls made, each with its Connection, id and future
    cwire,      \* the transport: requests the browser holds, responses on their way
    use,        \* the last call of an operation that needs a started Browser
    iter        \* Browser._i and the "for tab in browser" loops in progress

lifeVars == <<born, result, stp, config, process, info, connection, handlers, spc,
              tries, starts, profile>>
srvVars == <<srvUp, srv, discover, wire>>
regVars == <<targets, nextSerial, hnd, upd, updCalls, mutex, reported, gone>>
vars == <<born, result, stp, srvUp, config, process, info, connection, handlers, spc, tries, starts,
          profile,
          srv, discover, wire,
          targets, nextSerial, hnd, upd, updCalls, mutex, reported, gone, getc,
          objs, cfgref, dirs, launch, said, root,
          store, files, jar, _event_types_map, _event_types,
          cstate, nextId, pending, sends, cwire, use, iter>>
\* the state of the Config objects, which the Browser's protocol steps leave alone
cfgVars == <<objs, cfgref, dirs, launch, said, root>>
\* the state of the CookieJar, of the event-type registry, of the Connections
jarVars == <<store, files, jar>>
evtVars == <<_event_types_map, _event_types>>
conVars == <<cstate, nextId, pending, sends, cwire>>
\* the calls on a Browser that need it started, and the iterations over it
callVars == <<use, iter>>
\* the state outside the Browser session
restVars == <<cfgVars, jarVars, evtVars, conVars, callVars>>
\* the state of the Browser session
sessionVars == <<lifeVars, srvVars, regVars, getc>>
\* the state each part leaves alone
notConfig == <<sessionVars, jarVars, evtVars, conVars, callVars>>
notJar == <<sessionVars, cfgVars, evtVars, conVars, callVars>>
notRegistry == <<sessionVars, cfgVars, jarVars, conVars, callVars>>
notConnection == <<sessionVars, cfgVars, jarVars, evtVars, callVars>>

\* ----------------------------------------------------------------- helpers
TargetInfo(id, ty, url) == [target_id |-> id, type_ |-> ty, url |-> url]
NoInfo == TargetInfo(0, "none", "none")

\* a Tab object: its target info and the rank of its construction
Tab(ti, n) == [target |-> ti, serial |-> n]

RemoveAt(s, i) == [j \in 1..(Len(s) - 1) |-> IF j < i THEN s[j] ELSE s[j + 1]]
SetToSeq(S) ==
    LET RECURSIVE build(_)
        build(R) == IF R = {} THEN <<>>
                    ELSE LET m == CHOOSE x \in R : \A y \in R : x <= y
                         IN <<m>> \o build(R \ {m})
    IN build(S)

IdsOf(tgts) == {tgts[i].target.target_id : i \in 1..Len(tgts)}

\* Browser.tabs: the records of type page, in registry order
tabs(tgts) == SelectSeq(tgts, LAMBDA t : t.target.type_ = "page")

\* Browser.main_tab: tabs[0]; 0 stands for the ValueError of an empty tabs
main_tab(tgts) == IF tabs(tgts) = <<>> THEN 0 ELSE tabs(tgts)[1].serial

\* a lookup that takes the first record of type page, whatever its target-id
get_first_page(tgts, id) ==
    LET hits == {i \in 1..Len(tgts) : tgts[i].target.type_ = "page"}
    IN IF hits = {} THEN 0 ELSE CHOOSE i \in hits : \A j \in hits : i <= j

\* Browser.get_target_by_id: index of the first record of type page with
\* that target-id, 0 for None
get_target_by_id(tgts, id) ==
    LET hits == {i \in 1..Len(tgts) :
                    tgts[i].target.type_ = "page" /\ tgts[i].target.target_id = id}
    IN IF hits = {} THEN 0 ELSE CHOOSE i \in hits : \A j \in hits : i <= j

\* Browser.__iter__: main_tab raises ValueError when there is no tab; else
\* _i is the index of main_tab in tabs
__iter__(tgts) ==
    IF main_tab(tgts) = 0 THEN [raised |-> "ValueError", i |-> 0]
    ELSE [raised |-> "none",
          i |-> (CHOOSE k \in 1..Len(tabs(tgts)) :
                    /\ tabs(tgts)[k] = tabs(tgts)[1]
                    /\ \A j \in 1..(k - 1) : tabs(tgts)[j] # tabs(tgts)[1]) - 1]

\* Browser.__next__ with _i = i: tabs[_i] and _i + 1; StopIteration and no
\* _i when the index is past the end; without _i the "del self._i" of the
\* except clause raises AttributeError.  -1 stands for "no attribute _i".
__next__(tgts, i) ==
    IF i = -1
    THEN [raised |-> "AttributeError", value |-> Tab(NoInfo, 0), i |-> -1]
    ELSE IF i < Len(tabs(tgts))
    THEN [raised |-> "none", value |-> tabs(tgts)[i + 1], i |-> i + 1]
    ELSE [raised |-> "StopIteration", value |-> Tab(NoInfo, 0), i |-> -1]

\* "for tab in browser": iter(), then next() until StopIteration; what the
\* loop body saw, and the exception that left the loop, if any
ForTabInBrowser(tgts) ==
    LET RECURSIVE loop(_, _)
        loop(i, seen) ==
            LET n == __next__(tgts, i)
            IN IF n.raised = "StopIteration" THEN [yielded |-> seen, raised |-> "none"]
               ELSE loop(n.i, Append(seen, n.value))
    IN IF __iter__(tgts).raised # "none"
       THEN [yielded |-> <<>>, raised |-> __iter__(tgts).raised]
       ELSE loop(__iter__(tgts).i, <<>>)

\* Browser.__reversed__: reversed(self.tabs)
__reversed__(tgts) == [k \in 1..Len(tabs(tgts)) |-> tabs(tgts)[Len(tabs(tgts)) + 1 - k]]

\* the lock every Browser uses: _update_target_info_mutex is assigned once,
\* in the class body, so all Browser objects share the one asyncio.Lock
MutexOf(b) == "Browser._update_target_info_mutex"


\* ------------------------------------------------------------ initial state
\* a target-id of the browser: not handed out yet, a live target, or gone
FreeTarget == [st |-> "free", type_ |-> "none", url |-> "none"]
GoneTarget == [st |-> "gone", type_ |-> "none", url |-> "none"]
LiveTarget(ty, url) == [st |-> "live", type_ |-> ty, url |-> url]
Live(b) == {t \in AllIds : srv[b][t].st = "live"}
InfoOf(b, t) == TargetInfo(t, srv[b][t].type_, srv[b][t].url)

\* the browser comes up with the one page it was asked to open (about:blank)
Booted == [t \in AllIds |-> IF t = 1 THEN LiveTarget("page", "about:blank") ELSE FreeTarget]
NotBooted == [t \in AllIds |-> FreeTarget]

\* Config(host=..., port=..., autodiscover_targets=...): host_port is "user"
\* when the caller gave both, "auto" once start() has filled them in
Configs == [host_port : {"none", "user"}, autodiscover : BOOLEAN]

\* Config(user_data_dir=...): custom is Config._custom_data_dir, dir is the
\* state of the directory Config._user_data_dir names ("unset" for None)
Profile(custom) == [custom |-> custom, dir |-> IF custom THEN "exists" ELSE "unset"]
Profiles == {Profile(c) : c \in BOOLEAN}

\* Config.user_data_dir: an unset path is generated by temp_profile_dir(),
\* which makes the directory
temp_profile_dir == "exists"
user_data_dir(p) == IF p.dir = "unset" THEN [custom |-> FALSE, dir |-> temp_profile_dir] ELSE p

\* "params = self.config()" reads Config.user_data_dir; a spawned browser
\* makes the directory of its --user-data-dir when it is not there
Launched(p, spawn) == IF spawn THEN [user_data_dir(p) EXCEPT !.dir = "exists"]
                      ELSE user_data_dir(p)

\* what a start() call did: how it ended, whether it spawned a process, whether
\* its last /json/version request was answered, its steps in order, and the
\* Browser it returned when it returned at once with the "ignored!" warning
NoResult == [state |-> "none", spawned |-> FALSE, polledOk |-> FALSE, steps |-> <<>>,
             returned |-> "none"]
Step(b, name) == [result[b] EXCEPT !.steps = Append(@, name)]
\* update_targets(): its position, its caller, the reply it holds, and what
\* its last reconciliation did
\* stop(): its position, its caller, how its last call ended, the steps that
\* call did in order, the polls of its graceful deadline, its rmtree calls,
\* and whether it was called on a Browser that a stop() had stopped already
IdleStop == [pc |-> "idle", by |-> "none", out |-> "none", steps |-> <<>>, polls |-> 0,
             rm |-> 0, again |-> FALSE]
\* get(): its position, its arguments, its future and the event that set
\* it, the target-id of the createTarget reply (or of tabs[0]), the serial of
\* the record it holds, how its last call ended, the calls made, for each
\* call that returned its mode, its target-id and the record returned, and
\* the get_handler closures that get() calls have added to the
\* TargetInfoChanged handlers of the root Connection and not removed
IdleGet == [pc |-> "idle", url |-> "none", new |-> FALSE, future |-> "none", by |-> NoInfo,
            tid |-> 0, conn |-> 0, out |-> "none", calls |-> 0, log |-> <<>>, added |-> 0]
IdleUpd == [pc |-> "idle", by |-> "none", reply |-> <<>>, did |-> {}]
IdleHnd == [pc |-> "idle", ev |-> [kind |-> "none", info |-> NoInfo, targets |-> <<>>]]
\* a call of an operation that needs a started Browser: the operation, the
\* Browser, the Connection it took, how it ended, whether a command went out
NoUse == [op |-> "none", on |-> "none", conn |-> "None", out |-> "none", sent |-> FALSE]
\* hasattr(self, '_i') is false
NoCursor == -1
\* the "for tab in browser" loops of the program
Loops == {"outer", "inner"}
\* a loop: not begun, running, done or left by an exception; Browser.tabs and
\* the number of Tab objects made, as they were when the loop began; the tabs
\* its body got; the exception that left it
NoLoop == [pc |-> "idle", over |-> <<>>, at |-> 0, yielded |-> <<>>, raised |-> "none"]
NoIter == [_i |-> NoCursor, loops |-> [l \in Loops |-> NoLoop]]


\* -------------------------------------------------------------- Config data
\* A string is the sequence of its pieces, cut so that each word that
\* Config.add_argument looks for is one piece; "+" of strings is \o.
None == <<>>
Some(x) == <<x>>
\* str.lower() of one piece
lower_piece(c) == CASE c = "HEADLESS" -> "headless"
                    [] OTHER -> c
lower(str) == [i \in 1..Len(str) |-> lower_piece(str[i])]
\* "x in s" for a one-piece x
Contains(str, x) == \E i \in 1..Len(str) : str[i] = x

mute_audio == <<"--mute-audio">>
no_first_run == <<"--no-first-run">>
no_sandbox == <<"--", "no-sandbox">>
headless_new == <<"--", "headless", "=new">>
HEADLESS == <<"--", "HEADLESS">>
disable_web_security == <<"--disable-web-security">>
\* the arguments a caller gives: plain ones (one of them a default argument,
\* one an argument of expert mode) and ones naming an option the Config has an
\* attribute for
UserArgs == {mute_audio, no_first_run, disable_web_security, no_sandbox, HEADLESS}
\* the lang option, the user_agent option, an extension folder, a profile path
Tag == <<"en-US">>
Agent == <<"Mozilla/5.0">>
Extension == <<"/opt/ext">>
CustomDir == <<"/home/me/profile">>
TempDir(n) == <<"/tmp/uc_", ToString(n)>>
about_blank == <<"about:blank">>

\* Config._default_browser_args
_default_browser_args ==
    << <<"--remote-allow-origins=*">>, no_first_run, <<"--no-service-autorun">>,
       <<"--no-default-browser-check">>, <<"--homepage=about:blank">>, <<"--no-pings">>,
       <<"--password-store=basic">>, <<"--disable-infobars">>, <<"--disable-breakpad">>,
       <<"--disable-component-update">>, <<"--disable-backgrounding-occluded-windows">>,
       <<"--disable-renderer-backgrounding">>, <<"--disable-background-networking">>,
       <<"--disable-dev-shm-usage">>,
       <<"--disable-features=IsolateOrigins,DisableLoadExtensionCommandLineSwitch,site-per-process">>,
       <<"--disable-session-crashed-bubble">>, <<"--disable-search-engine-choice-screen">> >>

\* no Config object in the cell
NoConfig == [made |-> FALSE]
\* Config.__init__: the attributes it sets (browser_executable_path and the
\* connection timeouts play no part in the argument list)
Config(udd, hl, bargs, sb, lg, hp, ex, ua, ext) ==
    [made |-> TRUE,
     _user_data_dir |-> udd, _custom_data_dir |-> udd # None,
     _browser_args |-> bargs, headless |-> hl, user_agent |-> ua,
     sandbox |-> IF root /\ sb THEN FALSE ELSE sb,
     host_port |-> hp, expert |-> ex, _extensions |-> ext, lang |-> lg]
\* what the caller last did with its Config: the call, its argument, how it
\* ended, the list it returned and Config._browser_args as it was before
NoCall == [op |-> "none", arg |-> None, out |-> "none", args |-> <<>>, before |-> <<>>]
\* start() up to the launch: how it ended and the params of the process
NoLaunch == [out |-> "none", params |-> <<>>, running |-> FALSE]
Objs == {"caller"} \cup Browsers

\* no Config made by the caller, no directory
NoConfigs ==
    /\ objs = [o \in Objs |-> NoConfig]
    /\ cfgref = [b \in Browsers |-> "caller"]
    /\ dirs = [made |-> 0, live |-> {}]
    /\ launch = [b \in Browsers |-> NoLaunch]
    /\ said = NoCall
ConfigIdle ==
    /\ NoConfigs
    /\ root = FALSE

\* CookieJar.save: its arguments, the Connection it found, how it ended, the
\* cookies it fetched and the ones it included
NoSave == [pattern |-> "none", conn |-> "None", out |-> "none", cookies |-> <<>>,
           included |-> <<>>]
\* no cookies, no file, no started Browser
JarIdle ==
    /\ store = <<>>
    /\ files = [written |-> FALSE, cookies |-> <<>>]
    /\ jar = NoSave

Methods == {"Target.targetCreated", "Target.targetDestroyed", "Page.frameNavigated"}
\* the module as imported, before any class is decorated
RegistryIdle ==
    /\ _event_types_map = [m \in {} |-> 0]
    /\ _event_types = {}

Conns == {"k1", "k2"}
\* no Connection attached, no message sent
ConnectionIdle ==
    /\ cstate = [k \in Conns |-> "new"]
    /\ nextId = 1
    /\ pending = [k \in Conns |-> {}]
    /\ sends = <<>>
    /\ cwire = [k \in Conns |-> [server |-> <<>>, back |-> <<>>]]

\* Browser.__init__ for the Browsers in B, each with a Config of its own choice
Constructed(B) ==
    /\ born = [b \in Browsers |-> b \in B]
    /\ config \in [Browsers -> Configs]
    /\ \A b \in Browsers \ B : config[b] = [host_port |-> "none", autodiscover |-> TRUE]
    /\ profile \in [Browsers -> Profiles]
    /\ \A b \in Browsers \ B : profile[b] = Profile(FALSE)
    /\ result = [b \in Browsers |-> NoResult]
    /\ stp = [b \in Browsers |-> IdleStop]
    /\ process = [b \in Browsers |-> "None"]
    /\ info = [b \in Browsers |-> "None"]
    /\ connection = [b \in Browsers |-> "None"]
    /\ handlers = [b \in Browsers |-> {}]
    /\ spc = [b \in Browsers |-> "idle"]
    /\ tries = [b \in Browsers |-> 0]
    /\ starts = [b \in Browsers |-> 0]
    /\ srvUp = [b \in Browsers |-> b \in B /\ config[b].host_port = "user"]
    /\ srv = [b \in Browsers |-> IF srvUp[b] THEN Booted ELSE NotBooted]
    /\ discover = [b \in Browsers |-> FALSE]
    /\ wire = [b \in Browsers |-> <<>>]
    /\ targets = [b \in Browsers |-> <<>>]
    /\ nextSerial = [b \in Browsers |-> 1]
    /\ hnd = [b \in Browsers |-> IdleHnd]
    /\ upd = [b \in Browsers |-> IdleUpd]
    /\ updCalls = [b \in Browsers |-> 0]
    /\ mutex = [l \in {MutexOf(b) : b \in Browsers} |-> NoOne]
    /\ reported = [b \in Browsers |-> {}]
    /\ gone = [b \in Browsers |-> {}]
    /\ getc = [b \in Browsers |-> IdleGet]
    /\ use = NoUse
    /\ iter = NoIter

InitWith(B) ==
    /\ Constructed(B)
    /\ ConfigIdle
    /\ JarIdle
    /\ RegistryIdle
    /\ ConnectionIdle

\* no Browser session: the state of the specifications of the other parts
NoSession == Constructed({})

\* one Browser, made from the default Config (no host, no port, discovery on)
Init ==
    /\ InitWith({"b1"})
    /\ config["b1"] = [host_port |-> "none", autodiscover |-> TRUE]
    /\ profile["b1"] = Profile(FALSE)

\* ------------------------------------------------------------------ start()
Set(f, b, v) == [f EXCEPT ![b] = v]

\* the target-event handlers start() assigns in connection.handlers
InstalledHandlers == EventKinds

\* start(), from "connect_existing = False" to the first sleep: fill in host
\* and port unless both are set, check the executable, spawn unless
\* connect_existing.  x is the Browser that runs it and cfg its Config.
connect_existing(cfg) == cfg.host_port # "none"

StartBody(x, cfg) ==
    /\ config' = Set(config, x, [cfg EXCEPT !.host_port =
                                    IF connect_existing(cfg) THEN @ ELSE "auto"])
    /\ process' = Set(process, x, IF connect_existing(cfg) THEN process[x] ELSE "running")
    /\ srvUp' = Set(srvUp, x, IF connect_existing(cfg) THEN srvUp[x] ELSE TRUE)
    /\ srv' = Set(srv, x, IF connect_existing(cfg) THEN srv[x] ELSE Booted)
    /\ result' = Set(result, x, [state |-> "running", spawned |-> ~connect_existing(cfg),
                                 polledOk |-> FALSE,
                                 steps |-> IF connect_existing(cfg) THEN <<>> ELSE <<"spawn">>,
                                 returned |-> "none"])
    /\ spc' = Set(spc, x, "poll")
    /\ tries' = Set(tries, x, 0)
    /\ starts' = Set(starts, x, starts[x] + 1)

CanCall(b) ==
    /\ born[b]
    /\ spc[b] = "idle"
    /\ stp[b].pc = "idle"
    /\ upd[b].pc = "idle"

\* start() on a Browser without a process handle
StartCall(b) ==
    /\ CanCall(b)
    /\ starts[b] < MaxStarts
    /\ process[b] = "None"
    /\ StartBody(b, config[b])
    /\ profile' = Set(profile, b, Launched(profile[b], ~connect_existing(config[b])))
    /\ UNCHANGED <<restVars, getc, born, stp, info, connection, handlers, discover, wire>>
    /\ UNCHANGED regVars

\* start() when the executable is not on disk: FileNotFoundError, after host
\* and port were filled in
StartNoExecutable(b) ==
    /\ CanCall(b)
    /\ starts[b] < MaxStarts
    /\ process[b] = "None"
    /\ ~connect_existing(config[b])
    /\ config' = Set(config, b, [config[b] EXCEPT !.host_port = "auto"])
    /\ result' = Set(result, b, [NoResult EXCEPT !.state = "no_executable"])
    /\ starts' = Set(starts, b, starts[b] + 1)
    /\ UNCHANGED <<restVars, getc, profile, born, stp, srvUp, process, info, connection, handlers, spc, tries,
                   srv, discover, wire>>
    /\ UNCHANGED regVars

\* start() on a Browser whose process handle has a returncode: create() makes
\* a new Browser c from a deep copy of self.config and starts that one
StartRestart(b, c) ==
    /\ CanCall(b)
    /\ starts[b] < MaxStarts
    /\ process[b] = "reaped"
    /\ ~born[c]
    /\ born' = Set(born, c, TRUE)
    /\ StartBody(c, config[b])
    /\ profile' = [profile EXCEPT
                      ![b] = Launched(profile[b], ~connect_existing(config[b])),
                      ![c] = Launched(profile[b], ~connect_existing(config[b]))]
    /\ UNCHANGED <<restVars, getc, stp, info, connection, handlers, discover, wire>>
    /\ UNCHANGED regVars

\* a start() that launches whether the Browser has a process or not
StartAgain(b) ==
    /\ CanCall(b)
    /\ starts[b] < MaxStarts
    /\ process[b] \in {"running", "exited"}
    /\ StartBody(b, config[b])
    /\ profile' = Set(profile, b, Launched(profile[b], ~connect_existing(config[b])))
    /\ UNCHANGED <<restVars, getc, born, stp, info, connection, handlers, discover, wire>>
    /\ UNCHANGED regVars

\* start() on a Browser whose process is there (a handle with no returncode):
\* a warning and "return self", nothing else
StartIgnored(b) ==
    /\ CanCall(b)
    /\ starts[b] < MaxStarts
    /\ process[b] \in {"running", "exited"}
    /\ starts' = Set(starts, b, starts[b] + 1)
    /\ result' = Set(result, b, [result[b] EXCEPT !.returned = b])
    /\ UNCHANGED <<restVars, getc, profile, born, stp, srvUp, config, process, info, connection, handlers,
                   spc, tries, srv, discover, wire>>
    /\ UNCHANGED regVars

\* test_connection(): one GET /json/version; ok is whether it was answered
test_connection(b, ok) ==
    /\ ok => srvUp[b]
    /\ info' = IF ok THEN Set(info, b, "set") ELSE info

\* one iteration of "for _ in range(browser_connection_max_tries)"
Poll(b, ok) ==
    /\ spc[b] = "poll"
    /\ tries[b] < MaxTries
    /\ test_connection(b, ok)
    /\ tries' = Set(tries, b, tries[b] + 1)
    /\ spc' = Set(spc, b, IF ok \/ tries[b] + 1 = MaxTries THEN "polled" ELSE "poll")
    /\ result' = Set(result, b, [result[b] EXCEPT
                                    !.polledOk = ok,
                                    !.steps = IF ok THEN Append(@, "discovery") ELSE @])
    /\ UNCHANGED <<restVars, getc, profile, born, stp, srvUp, config, process, connection, handlers, starts,
                   srv, discover, wire>>
    /\ UNCHANGED regVars

\* "if not self.info": stop() and raise
DiscoveryFailed(b) ==
    /\ spc[b] = "polled"
    /\ info[b] = "None"
    /\ spc' = Set(spc, b, "failing")
    /\ stp' = Set(stp, b, [IdleStop EXCEPT !.pc = "close", !.by = "start"])
    /\ UNCHANGED <<restVars, getc, profile, born, result, srvUp, config, process, info, connection, handlers,
                   tries, starts, srv, discover, wire>>
    /\ UNCHANGED regVars

\* self.connection = Connection(self.info.webSocketDebuggerUrl, _owner=self):
\* a Connection with no handlers, whose session has discovery off; what was
\* in flight on the Connection it replaces is dropped with it
OpenConnection(b) ==
    /\ spc[b] = "polled"
    /\ info[b] # "None"
    /\ connection' = Set(connection, b, "new")
    /\ handlers' = Set(handlers, b, {})
    /\ discover' = Set(discover, b, FALSE)
    /\ wire' = Set(wire, b, <<>>)
    /\ spc' = Set(spc, b, "connected")
    /\ result' = Set(result, b, Step(b, "connection"))
    /\ UNCHANGED <<restVars, getc, profile, born, stp, srvUp, config, process, info, tries, starts, srv>>
    /\ UNCHANGED regVars

\* "if self.config.autodiscover_targets": the four handlers assignments
InstallHandlers(b) ==
    /\ spc[b] = "connected"
    /\ config[b].autodiscover
    /\ handlers' = Set(handlers, b, InstalledHandlers)
    /\ spc' = Set(spc, b, "installed")
    /\ result' = Set(result, b, Step(b, "handlers"))
    /\ UNCHANGED <<restVars, getc, profile, born, stp, srvUp, config, process, info, connection, tries,
                   starts, srv, discover, wire>>
    /\ UNCHANGED regVars

\* a send on the root Connection whose browser does not answer raises, and
\* start() ends with that exception
StartSendFails(b) ==
    /\ \/ spc[b] \in {"installed", "discover", "discovered"}
       \/ spc[b] = "connected" /\ ~config[b].autodiscover
    /\ ~srvUp[b]
    /\ spc' = Set(spc, b, "idle")
    /\ result' = Set(result, b, [result[b] EXCEPT !.state = "error"])
    /\ UNCHANGED <<restVars, getc, profile, born, stp, srvUp, config, process, info, connection, handlers, tries,
                   starts, srv, discover, wire>>
    /\ UNCHANGED regVars

\* a start() that sends the discover command before it installs the handlers
SendDiscoverFirst(b) ==
    /\ spc[b] = "connected"
    /\ config[b].autodiscover
    /\ srvUp[b]
    /\ connection' = Set(connection, b, "open")
    /\ spc' = Set(spc, b, "discover")
    /\ result' = Set(result, b, Step(b, "discover"))
    /\ UNCHANGED <<restVars, getc, profile, born, stp, srvUp, config, process, info, handlers, tries,
                   starts, srv, discover, wire>>
    /\ UNCHANGED regVars

\* await self.connection.send(cdp.target.set_discover_targets(discover=True))
SendDiscover(b) ==
    /\ spc[b] = "installed"
    /\ srvUp[b]
    /\ connection' = Set(connection, b, "open")
    /\ spc' = Set(spc, b, "discover")
    /\ result' = Set(result, b, Step(b, "discover"))
    /\ UNCHANGED <<restVars, getc, profile, born, stp, srvUp, config, process, info, handlers, tries,
                   starts, srv, discover, wire>>
    /\ UNCHANGED regVars

\* "await self.update_targets()" of start(): _get_targets() sends getTargets
SeedCall(b) ==
    /\ \/ spc[b] = "discovered"
       \/ spc[b] = "connected" /\ ~config[b].autodiscover
    /\ srvUp[b]
    /\ upd[b].pc = "idle"
    /\ connection' = Set(connection, b, "open")
    /\ spc' = Set(spc, b, "seed")
    /\ upd' = Set(upd, b, [IdleUpd EXCEPT !.pc = "sent", !.by = "start"])
    /\ result' = Set(result, b, Step(b, "update_targets"))
    /\ UNCHANGED <<restVars, getc, profile, born, stp, srvUp, config, process, info, handlers, tries,
                   starts, srv, discover, wire>>
    /\ UNCHANGED <<targets, nextSerial, hnd, updCalls, mutex, reported, gone>>


\* ------------------------------------------------ the browser (environment)
\* the frames of the root Connection: a notification, or the reply to a command
Notification(kind, ti) == [kind |-> kind, info |-> ti, targets |-> <<>>]
Reply(cmd, tis) == [kind |-> cmd, info |-> NoInfo, targets |-> tis]
OnlyId(t) == TargetInfo(t, "none", "none")

\* what the browser sends when discovery is on
Emit(b, n) == IF discover[b] THEN Append(wire[b], n) ELSE wire[b]

Attached(b) == srvUp[b] /\ connection[b] = "open" /\ stp[b].pc = "idle"
RoomOnWire(b) == discover[b] => Len(wire[b]) < MaxWire

\* the browser handles Target.setDiscoverTargets(discover=true): it reports
\* every target it has with a TargetCreated, then replies
SrvDiscover(b) ==
    /\ spc[b] = "discover"
    /\ srvUp[b]
    /\ discover' = Set(discover, b, TRUE)
    /\ wire' = Set(wire, b, wire[b] \o
                  [i \in 1..Cardinality(Live(b)) |->
                      Notification("TargetCreated", InfoOf(b, SetToSeq(Live(b))[i]))]
                  \o <<Reply("setDiscoverTargets", <<>>)>>)
    /\ spc' = Set(spc, b, "discover_replied")
    /\ UNCHANGED <<restVars, getc, profile, born, result, stp, srvUp, config, process, info, connection, handlers,
                   tries, starts, srv>>
    /\ UNCHANGED regVars

\* the receive loop routes the reply to setDiscoverTargets: the send of
\* start() returns
DiscoverReplied(b) ==
    /\ wire[b] # <<>>
    /\ Head(wire[b]).kind = "setDiscoverTargets"
    /\ hnd[b].pc = "idle"
    /\ wire' = Set(wire, b, Tail(wire[b]))
    /\ spc' = Set(spc, b, "discovered")
    /\ UNCHANGED <<restVars, getc, profile, born, result, stp, srvUp, config, process, info, connection, handlers,
                   tries, starts, srv, discover>>
    /\ UNCHANGED regVars

\* a target appears in the browser (a tab, a window, an iframe, a worker)
SrvCreate(b, ty) ==
    /\ Attached(b)
    /\ RoomOnWire(b)
    /\ \E t \in Ids :
        /\ srv[b][t].st = "free"
        /\ \A u \in Ids : srv[b][u].st = "free" => t <= u
        /\ srv' = Set(srv, b, [srv[b] EXCEPT ![t] = LiveTarget(ty, "about:blank")])
        /\ wire' = Set(wire, b, Emit(b, Notification("TargetCreated",
                                        TargetInfo(t, ty, "about:blank"))))
    /\ UNCHANGED <<srvUp, discover>>
    /\ UNCHANGED lifeVars
    /\ UNCHANGED <<restVars, getc>>
    /\ UNCHANGED regVars

\* a target navigates: its url changes, the browser reports the new info
SrvChange(b, t, url) ==
    /\ Attached(b)
    /\ RoomOnWire(b)
    /\ srv[b][t].st = "live"
    /\ srv[b][t].url = "about:blank" /\ url # "about:blank"
    /\ srv' = Set(srv, b, [srv[b] EXCEPT ![t].url = url])
    /\ wire' = Set(wire, b, Emit(b, Notification("TargetInfoChanged",
                                    TargetInfo(t, srv[b][t].type_, url))))
    /\ UNCHANGED <<srvUp, discover>>
    /\ UNCHANGED lifeVars
    /\ UNCHANGED <<restVars, getc>>
    /\ UNCHANGED regVars

\* a target is closed (kind TargetDestroyed) or crashes (kind TargetCrashed)
SrvEnd(b, t, kind) ==
    /\ Attached(b)
    /\ RoomOnWire(b)
    /\ srv[b][t].st = "live"
    /\ srv' = Set(srv, b, [srv[b] EXCEPT ![t] = GoneTarget])
    /\ wire' = Set(wire, b, Emit(b, Notification(kind, OnlyId(t))))
    /\ UNCHANGED <<srvUp, discover>>
    /\ UNCHANGED lifeVars
    /\ UNCHANGED <<restVars, getc>>
    /\ UNCHANGED regVars

SrvDestroy(b, t) == SrvEnd(b, t, "TargetDestroyed")
SrvCrash(b, t) == SrvEnd(b, t, "TargetCrashed")

\* the browser replies to Target.getTargets with the targets it has
GetTargetsReply(b) ==
    [i \in 1..Cardinality(Live(b)) |-> InfoOf(b, SetToSeq(Live(b))[i])]

SrvGetTargets(b) ==
    /\ upd[b].pc = "sent"
    /\ srvUp[b]
    /\ upd' = Set(upd, b, [upd[b] EXCEPT !.pc = "replied"])
    /\ wire' = Set(wire, b, Append(wire[b], Reply("getTargets", GetTargetsReply(b))))
    /\ UNCHANGED <<targets, nextSerial, hnd, updCalls, mutex, reported, gone>>
    /\ UNCHANGED lifeVars
    /\ UNCHANGED <<restVars, getc>>
    /\ UNCHANGED <<srvUp, srv, discover>>

\* the receive loop routes the reply to getTargets: the future of the send in
\* _get_targets() is completed, update_targets() is ready to go on
GetTargetsReplied(b) ==
    /\ wire[b] # <<>>
    /\ Head(wire[b]).kind = "getTargets"
    /\ hnd[b].pc = "idle"
    /\ wire' = Set(wire, b, Tail(wire[b]))
    /\ upd' = Set(upd, b, [upd[b] EXCEPT !.pc = "got", !.reply = Head(wire[b]).targets])
    /\ UNCHANGED <<targets, nextSerial, hnd, updCalls, mutex, reported, gone>>
    /\ UNCHANGED lifeVars
    /\ UNCHANGED <<restVars, getc>>
    /\ UNCHANGED <<srvUp, srv, discover>>

\* ------------------------------------------------------- the target registry
\* the list operations of the four handlers and of update_targets()
\* a handler that puts the new record first
handle_created_first(tgts, ti, n) == <<Tab(ti, n)>> \o tgts

handle_created(tgts, ti, n) == Append(tgts, Tab(ti, n))

handle_info_changed(tgts, ti) ==
    LET i == get_target_by_id(tgts, ti.target_id)
    IN IF i = 0 THEN tgts ELSE [tgts EXCEPT ![i].target = ti]

handle_removed(tgts, id) ==
    LET i == get_target_by_id(tgts, id)
    IN IF i = 0 THEN tgts ELSE RemoveAt(tgts, i)

\* the "for existing_tab in self.targets ... break / else" of update_targets
FirstWithId(tgts, id) ==
    LET hits == {i \in 1..Len(tgts) : tgts[i].target.target_id = id}
    IN IF hits = {} THEN 0 ELSE CHOOSE i \in hits : \A j \in hits : i <= j

RECURSIVE reconcile_loop(_, _, _)
reconcile_loop(tgts, reply, n) ==
    IF reply = <<>> THEN tgts
    ELSE LET ti == Head(reply)
             i == FirstWithId(tgts, ti.target_id)
         IN IF i # 0
            THEN reconcile_loop([tgts EXCEPT ![i].target = ti], Tail(reply), n)
            ELSE reconcile_loop(Append(tgts, Tab(ti, n)), Tail(reply), n + 1)

\* a reconciliation that also drops the records the reply does not mention
reconcile_pruning(tgts, reply, n) ==
    reconcile_loop(SelectSeq(tgts, LAMBDA r : \E k \in 1..Len(reply) :
                                 reply[k].target_id = r.target.target_id), reply, n)

reconcile(tgts, reply, n) == reconcile_loop(tgts, reply, n)

\* what a handler does to the registry inside its "async with", by event
\* get_handler, the closure get() adds to the TargetInfoChanged handlers:
\* it sets the pending future with any event whose url is not about:blank,
\* or with an about:blank one when get() was asked for about:blank
get_handler(g, ev) ==
    IF /\ ev.kind = "TargetInfoChanged"
       /\ g.future = "pending"
       /\ \/ ev.info.url # "about:blank"
          \/ g.url = "about:blank" /\ ev.info.url = "about:blank"
    THEN [g EXCEPT !.future = "done", !.by = ev.info]
    ELSE g

Handled(b, ev) ==
    /\ UNCHANGED restVars
    /\ getc' = Set(getc, b, get_handler(getc[b], ev))
    /\ targets' = Set(targets, b,
         CASE ev.kind = "TargetInfoChanged" -> handle_info_changed(targets[b], ev.info)
           [] ev.kind = "TargetCreated" -> handle_created(targets[b], ev.info, nextSerial[b])
           [] OTHER -> handle_removed(targets[b], ev.info.target_id))
    /\ nextSerial' = Set(nextSerial, b, IF ev.kind = "TargetCreated"
                                        THEN nextSerial[b] + 1 ELSE nextSerial[b])
    /\ reported' = Set(reported, b, IF ev.kind = "TargetCreated"
                                    THEN reported[b] \cup {ev.info.target_id} ELSE reported[b])
    /\ gone' = Set(gone, b, IF ev.kind \in {"TargetDestroyed", "TargetCrashed"}
                            THEN gone[b] \cup {ev.info.target_id} ELSE gone[b])

\* The receive loop routes frames in wire order: it hands a notification to
\* the handler assigned to its kind and awaits it.  asyncio.Lock.acquire() on a free lock does not
\* suspend and the body of the "async with" has no await: the handler runs
\* in one step.
Handle(b, kind) ==
    /\ wire[b] # <<>>
    /\ Head(wire[b]).kind = kind
    /\ kind \in handlers[b]
    /\ hnd[b].pc = "idle"
    /\ mutex[MutexOf(b)] = NoOne
    /\ wire' = Set(wire, b, Tail(wire[b]))
    /\ Handled(b, Head(wire[b]))
    /\ UNCHANGED <<hnd, upd, updCalls, mutex>>
    /\ UNCHANGED <<srvUp, srv, discover>>
    /\ UNCHANGED lifeVars

_handle_target_info_changed(b) == Handle(b, "TargetInfoChanged")
_handle_target_created(b) == Handle(b, "TargetCreated")
_handle_target_destroyed(b) == Handle(b, "TargetDestroyed")
_handle_target_crashed(b) == Handle(b, "TargetCrashed")

\* The same handlers with the lock in sight: the handler takes the lock
\* (HandlerEnter), and, holding it, changes the registry and lets go
\* (HandlerLeave).
HandlerEnter(b) ==
    /\ wire[b] # <<>>
    /\ hnd[b].pc = "idle"
    /\ Head(wire[b]).kind \in handlers[b]
    /\ mutex[MutexOf(b)] = NoOne
    /\ mutex' = [mutex EXCEPT ![MutexOf(b)] = <<b, "handler">>]
    /\ hnd' = Set(hnd, b, [pc |-> "cs", ev |-> Head(wire[b])])
    /\ wire' = Set(wire, b, Tail(wire[b]))
    /\ UNCHANGED <<targets, nextSerial, upd, updCalls, reported, gone>>
    /\ UNCHANGED <<srvUp, srv, discover>>
    /\ UNCHANGED lifeVars
    /\ UNCHANGED <<restVars, getc>>

HandlerLeave(b) ==
    /\ hnd[b].pc = "cs"
    /\ Handled(b, hnd[b].ev)
    /\ mutex' = [mutex EXCEPT ![MutexOf(b)] = NoOne]
    /\ hnd' = Set(hnd, b, IdleHnd)
    /\ UNCHANGED <<upd, updCalls>>
    /\ UNCHANGED srvVars
    /\ UNCHANGED lifeVars

\* update_targets() called by the user: _get_targets() sends getTargets
update_targets(b) ==
    /\ CanCall(b)
    /\ connection[b] = "open"
    /\ srvUp[b]
    /\ updCalls[b] < MaxUpdates
    /\ updCalls' = Set(updCalls, b, updCalls[b] + 1)
    /\ upd' = Set(upd, b, [IdleUpd EXCEPT !.pc = "sent", !.by = "user"])
    /\ UNCHANGED <<targets, nextSerial, hnd, mutex, reported, gone>>
    /\ UNCHANGED srvVars
    /\ UNCHANGED lifeVars
    /\ UNCHANGED <<restVars, getc>>

\* which of its three cases a reconciliation met: a target with a record (updated),
\* a target without one (appended), a record the reply does not mention (kept)
Did(tgts, reply) ==
    LET ReplyIds == {reply[k].target_id : k \in 1..Len(reply)}
    IN {x \in {"updated", "appended", "kept"} :
           \/ x = "updated" /\ ReplyIds \cap IdsOf(tgts) # {}
           \/ x = "appended" /\ ReplyIds \ IdsOf(tgts) # {}
           \/ x = "kept" /\ IdsOf(tgts) \ ReplyIds # {}}

\* the reconciliation loop of update_targets(), sleep(0) and the return; the
\* update_targets() of start() ends start()
Reconciled(b) ==
    /\ targets' = Set(targets, b, reconcile(targets[b], upd[b].reply, nextSerial[b]))
    /\ nextSerial' = Set(nextSerial, b, nextSerial[b] + Len(targets'[b]) - Len(targets[b]))
    /\ reported' = Set(reported, b,
                       reported[b] \cup {upd[b].reply[i].target_id : i \in 1..Len(upd[b].reply)})
    /\ upd' = Set(upd, b, [IdleUpd EXCEPT !.did = Did(targets[b], upd[b].reply)])
    /\ spc' = IF upd[b].by = "start" THEN Set(spc, b, "idle") ELSE spc
    /\ result' = IF upd[b].by = "start"
                 THEN Set(result, b, [result[b] EXCEPT !.state = "ok"]) ELSE result
    /\ UNCHANGED <<hnd, updCalls, gone>>
    /\ UNCHANGED srvVars
    /\ UNCHANGED <<restVars, getc, profile, born, stp, config, process, info, connection, handlers, tries, starts>>

\* update_targets() resumes with its reply, takes the free lock, reconciles
\* and returns: no await in between
UpdateReconcile(b) ==
    /\ upd[b].pc = "got"
    /\ mutex[MutexOf(b)] = NoOne
    /\ Reconciled(b)
    /\ UNCHANGED mutex

\* the same with the lock in sight
UpdateEnter(b) ==
    /\ upd[b].pc = "got"
    /\ mutex[MutexOf(b)] = NoOne
    /\ mutex' = [mutex EXCEPT ![MutexOf(b)] = <<b, "update">>]
    /\ upd' = Set(upd, b, [upd[b] EXCEPT !.pc = "locked"])
    /\ UNCHANGED <<targets, nextSerial, hnd, updCalls, reported, gone>>
    /\ UNCHANGED srvVars
    /\ UNCHANGED lifeVars
    /\ UNCHANGED <<restVars, getc>>

UpdateLeave(b) ==
    /\ upd[b].pc = "locked"
    /\ Reconciled(b)
    /\ mutex' = [mutex EXCEPT ![MutexOf(b)] = NoOne]

\* ------------------------------------------------------------------- stop()
\* stop() called by the user
Stopped(b) == connection[b] \in {"None", "closed"} /\ process[b] = "None"

StopCall(b) ==
    /\ CanCall(b)
    /\ hnd[b].pc = "idle"
    /\ stp' = Set(stp, b, [IdleStop EXCEPT !.pc = "close", !.by = "user",
                                          !.again = stp[b].out = "returned" /\ Stopped(b)])
    /\ UNCHANGED <<restVars, getc, profile, born, result, config, process, info, connection, handlers, spc,
                   tries, starts>>
    /\ UNCHANGED srvVars
    /\ UNCHANGED regVars

\* the end of a stop() call, rec the record of the call: back in the caller;
\* start() raises after its stop()
StopEnds(b, rec) ==
    /\ stp' = Set(stp, b, rec)
    /\ spc' = IF stp[b].by = "start" THEN Set(spc, b, "idle") ELSE spc
    /\ result' = IF stp[b].by = "start"
                 THEN Set(result, b, [result[b] EXCEPT !.state = "error"]) ELSE result

Returned(rec) == [rec EXCEPT !.pc = "idle", !.by = "none", !.out = "returned"]
Raised(rec) == [rec EXCEPT !.pc = "idle", !.by = "none", !.out = "raised"]
StopReturns(b) == StopEnds(b, Returned(stp[b]))

\* stop() goes on to pc, having done the step name
StopStep(b, pc, name) == [stp[b] EXCEPT !.pc = pc, !.steps = Append(@, name)]

\* "if not self.connection and not self._process: return"
StopNothing(b) ==
    /\ stp[b].pc = "close"
    /\ connection[b] = "None" /\ process[b] = "None"
    /\ StopReturns(b)
    /\ UNCHANGED <<restVars, getc, profile, born, config, process, info, connection, handlers, tries, starts>>
    /\ UNCHANGED srvVars
    /\ UNCHANGED regVars

\* a command sent on the root Connection reaches the browser: the Connection
\* is not closed (a new one attaches on its first send) and a browser answers
Delivered(b) == connection[b] \in {"new", "open"} /\ srvUp[b]

\* "if self.connection": send browser.close, a failure swallowed by the
\* except.  A browser that gets the command exits.
StopClose(b) ==
    /\ stp[b].pc = "close"
    /\ ~(connection[b] = "None" /\ process[b] = "None")
    /\ IF connection[b] = "None"
       THEN /\ stp' = Set(stp, b, [stp[b] EXCEPT !.pc = "terminate"])
            /\ UNCHANGED <<connection, srvUp, discover, process>>
       ELSE IF Delivered(b)
       THEN /\ stp' = Set(stp, b, StopStep(b, "aclose", "close_sent"))
            /\ connection' = Set(connection, b, "open")
            /\ srvUp' = Set(srvUp, b, FALSE)
            /\ discover' = Set(discover, b, FALSE)
            /\ process' = Set(process, b, IF process[b] = "running" THEN "exited"
                                          ELSE process[b])
       ELSE /\ stp' = Set(stp, b, StopStep(b, "aclose", "close_failed"))
            /\ UNCHANGED <<connection, srvUp, discover, process>>
    /\ UNCHANGED <<restVars, getc, profile, born, result, config, info, handlers, spc, tries, starts, srv, wire>>
    /\ UNCHANGED regVars

\* "await self.connection.aclose()": the Connection is closed, what was in
\* flight on it is dropped
StopAclose(b) ==
    /\ stp[b].pc = "aclose"
    /\ connection' = Set(connection, b, "closed")
    /\ wire' = Set(wire, b, <<>>)
    /\ stp' = Set(stp, b, StopStep(b, "terminate", "aclose"))
    /\ UNCHANGED <<restVars, getc, profile, born, result, config, process, info, handlers, spc, tries, starts,
                   srvUp, srv, discover>>
    /\ UNCHANGED regVars

\* aclose() of an attached Connection fails: the await is outside the try,
\* so the exception leaves stop()
StopAcloseRaises(b) ==
    /\ stp[b].pc = "aclose"
    /\ connection[b] = "open"
    /\ connection' = Set(connection, b, "closed")
    /\ wire' = Set(wire, b, <<>>)
    /\ StopEnds(b, Raised(stp[b]))
    /\ UNCHANGED <<restVars, getc, profile, born, config, process, info, handlers, tries, starts,
                   srvUp, srv, discover>>
    /\ UNCHANGED regVars

\* a stop() that removes the temporary profile directory before it terminates
\* the process
CleanupThenTerminate(b) ==
    /\ stp[b].pc = "terminate"
    /\ IF process[b] = "None"
       THEN /\ stp' = Set(stp, b, [stp[b] EXCEPT !.pc = "cleanup"])
            /\ UNCHANGED process
       ELSE /\ stp' = Set(stp, b, StopStep(b, "polling", "terminate"))
            /\ process' = Set(process, b, IF process[b] = "running" THEN "running"
                                          ELSE "reaped")
    /\ profile' = Set(profile, b, IF profile[b].custom THEN profile[b]
                                  ELSE [user_data_dir(profile[b]) EXCEPT !.dir = "removed"])
    /\ UNCHANGED <<restVars, getc, born, result, config, info, connection, handlers, spc, tries, starts>>
    /\ UNCHANGED srvVars
    /\ UNCHANGED regVars

\* "if self._process": self._process.terminate().  Popen.terminate() signals
\* a process that runs and only stores the returncode of one that is dead.
StopTerminate(b) ==
    /\ stp[b].pc = "terminate"
    /\ IF process[b] = "None"
       THEN /\ stp' = Set(stp, b, [stp[b] EXCEPT !.pc = "cleanup"])
            /\ UNCHANGED process
       ELSE /\ stp' = Set(stp, b, StopStep(b, "polling", "terminate"))
            /\ process' = Set(process, b, IF process[b] = "running" THEN "running"
                                          ELSE "reaped")
    /\ UNCHANGED <<restVars, getc, profile, born, result, config, info, connection, handlers, spc, tries,
                   starts>>
    /\ UNCHANGED srvVars
    /\ UNCHANGED regVars

\* the browser process exits while stop() sleeps in its polling loop
ProcessExits(b) ==
    /\ stp[b].pc \in {"polling", "kill"}
    /\ process[b] = "running"
    /\ process' = Set(process, b, "exited")
    /\ srvUp' = Set(srvUp, b, FALSE)
    /\ discover' = Set(discover, b, FALSE)
    /\ UNCHANGED <<restVars, getc, profile, born, result, stp, config, info, connection, handlers, spc,
                   tries, starts, srv, wire>>
    /\ UNCHANGED regVars

\* one iteration of "for _ in range(12)": break when poll() has a returncode,
\* else sleep 0.25 s; the loop runs out into its else clause
GracePolls == 12

\* a polling loop that runs out after its first sleep
StopPollOnce(b) ==
    /\ stp[b].pc = "polling"
    /\ stp[b].polls < GracePolls
    /\ IF process[b] \in {"exited", "reaped"}
       THEN /\ process' = Set(process, b, "reaped")
            /\ stp' = Set(stp, b, [stp[b] EXCEPT !.pc = "wait"])
       ELSE /\ UNCHANGED process
            /\ stp' = Set(stp, b, [stp[b] EXCEPT !.polls = @ + 1, !.pc = "kill"])
    /\ UNCHANGED <<restVars, getc, profile, born, result, config, info, connection, handlers, spc, tries,
                   starts>>
    /\ UNCHANGED srvVars
    /\ UNCHANGED regVars

StopPoll(b) ==
    /\ stp[b].pc = "polling"
    /\ stp[b].polls < GracePolls
    /\ IF process[b] \in {"exited", "reaped"}
       THEN /\ process' = Set(process, b, "reaped")
            /\ stp' = Set(stp, b, [stp[b] EXCEPT !.pc = "wait"])
       ELSE /\ UNCHANGED process
            /\ stp' = Set(stp, b, [stp[b] EXCEPT
                                      !.polls = @ + 1,
                                      !.pc = IF stp[b].polls + 1 = GracePolls
                                             THEN "kill" ELSE "polling"])
    /\ UNCHANGED <<restVars, getc, profile, born, result, config, info, connection, handlers, spc, tries,
                   starts>>
    /\ UNCHANGED srvVars
    /\ UNCHANGED regVars

\* the else clause of the loop: self._process.kill().  Popen.kill() signals a
\* process that runs and only stores the returncode of one that is dead.
StopKill(b) ==
    /\ stp[b].pc = "kill"
    /\ IF process[b] = "running"
       THEN /\ process' = Set(process, b, "exited")
            /\ srvUp' = Set(srvUp, b, FALSE)
            /\ discover' = Set(discover, b, FALSE)
            /\ stp' = Set(stp, b, StopStep(b, "wait", "kill"))
       ELSE /\ process' = Set(process, b, "reaped")
            /\ stp' = Set(stp, b, [stp[b] EXCEPT !.pc = "wait"])
            /\ UNCHANGED <<srvUp, discover>>
    /\ UNCHANGED <<restVars, getc, profile, born, result, config, info, connection, handlers, spc, tries,
                   starts, srv, wire>>
    /\ UNCHANGED regVars

\* "await asyncio.to_thread(self._process.wait)" returns when the process has
\* exited; then "self._process = None; self._process_pid = None"
StopWait(b) ==
    /\ stp[b].pc = "wait"
    /\ process[b] \in {"exited", "reaped"}
    /\ process' = Set(process, b, "None")
    /\ stp' = Set(stp, b, StopStep(b, "cleanup", "wait"))
    /\ UNCHANGED <<restVars, getc, profile, born, result, config, info, connection, handlers, spc, tries,
                   starts>>
    /\ UNCHANGED srvVars
    /\ UNCHANGED regVars

\* "await self._cleanup_temporary_profile()": nothing to do for a custom
\* directory, and stop() returns
StopCleanup(b) ==
    /\ stp[b].pc = "cleanup"
    /\ IF profile[b].custom
       THEN StopEnds(b, Returned(StopStep(b, "cleanup", "cleanup")))
       ELSE /\ stp' = Set(stp, b, StopStep(b, "rmtree", "cleanup"))
            /\ UNCHANGED <<spc, result>>
    /\ UNCHANGED <<restVars, getc, profile, born, config, process, info, connection, handlers, tries, starts>>
    /\ UNCHANGED srvVars
    /\ UNCHANGED regVars

\* one iteration of "for attempt in range(5)": shutil.rmtree of
\* Config.user_data_dir; ok is whether it removes the directory.  After a
\* removal the loop goes on, and the next rmtree ends it with
\* FileNotFoundError; a PermissionError or OSError is followed by a sleep.
CleanupAttempts == 5

rmtree(b, ok) ==
    /\ stp[b].pc = "rmtree"
    /\ stp[b].rm < CleanupAttempts
    /\ LET p == user_data_dir(profile[b])
           rec == [stp[b] EXCEPT !.rm = @ + 1]
       IN IF p.dir # "exists"
          THEN /\ ok
               /\ profile' = Set(profile, b, p)
               /\ StopEnds(b, Returned(rec))
          ELSE /\ profile' = Set(profile, b, IF ok THEN [p EXCEPT !.dir = "removed"] ELSE p)
               /\ IF rec.rm = CleanupAttempts
                  THEN StopEnds(b, Returned(rec))
                  ELSE /\ stp' = Set(stp, b, rec)
                       /\ UNCHANGED <<spc, result>>
    /\ UNCHANGED <<restVars, getc, born, config, process, info, connection, handlers, tries, starts>>
    /\ UNCHANGED srvVars
    /\ UNCHANGED regVars

\* the browser process dies on its own (a crash, a kill from outside)
ProcessDies(b) ==
    /\ process[b] = "running"
    /\ stp[b].pc = "idle"
    /\ process' = Set(process, b, "exited")
    /\ srvUp' = Set(srvUp, b, FALSE)
    /\ discover' = Set(discover, b, FALSE)
    /\ UNCHANGED <<restVars, getc, profile, born, result, stp, config, info, connection, handlers, spc, tries,
                   starts, srv, wire>>
    /\ UNCHANGED regVars

\* Browser.stopped: self._process.poll() stores the returncode of a dead process
stopped(b) ==
    /\ born[b]
    /\ process[b] = "exited"
    /\ process' = Set(process, b, "reaped")
    /\ UNCHANGED <<restVars, getc, profile, born, result, stp, config, info, connection, handlers, spc, tries, starts>>
    /\ UNCHANGED srvVars
    /\ UNCHANGED regVars

\* the value of Browser.stopped: "not (self._process and
\* self._process.poll() is None)"
is_stopped(b) == ~(process[b] # "None" /\ process[b] = "running")

\* browser_atexit, the hook create() registers once start() has returned: the
\* calls it makes
browser_atexit(b) == IF ~is_stopped(b) THEN <<"stop", "_cleanup_temporary_profile">>
                     ELSE <<"_cleanup_temporary_profile">>

\* a getTargets whose browser is gone: the send raises
UpdateFails(b) ==
    /\ upd[b].pc = "sent"
    /\ ~srvUp[b]
    /\ upd' = Set(upd, b, IdleUpd)
    /\ spc' = IF upd[b].by = "start" THEN Set(spc, b, "idle") ELSE spc
    /\ result' = IF upd[b].by = "start"
                 THEN Set(result, b, [result[b] EXCEPT !.state = "error"]) ELSE result
    /\ UNCHANGED <<restVars, getc, profile, born, stp, config, process, info, connection, handlers, tries, starts>>
    /\ UNCHANGED srvVars
    /\ UNCHANGED <<targets, nextSerial, hnd, updCalls, mutex, reported, gone>>

\* -------------------------------------------------------------------- get()
\* a get() call starts (it makes the future and adds get_handler), and a
\* get() call ends with outcome out: its future is then done, cancelled or
\* out of reach, and get_handler ignores every event
Began(g, url, new) ==
    [IdleGet EXCEPT !.url = url, !.new = new, !.future = "pending",
                    !.calls = g.calls, !.log = g.log, !.added = g.added + 1]
Ended(g, out) == [IdleGet EXCEPT !.out = out, !.calls = g.calls + 1, !.log = g.log,
                                 !.added = g.added]

\* get() on a Browser without a root Connection: RuntimeError
GetNotStarted(b) ==
    /\ CanCall(b)
    /\ getc[b].pc = "idle" /\ getc[b].calls < MaxGets
    /\ connection[b] = "None"
    /\ UNCHANGED restVars
    /\ getc' = Set(getc, b, Ended(getc[b], "RuntimeError"))
    /\ UNCHANGED lifeVars
    /\ UNCHANGED srvVars
    /\ UNCHANGED regVars

\* An operation of a Connection that is not among the sources, after spec.md
\* 4.D and 7: once closed, every operation fails with "connection closed"; an
\* attach or a write that fails is a TransportError; else the command goes out
send(st, up) == IF st = "closed" THEN "ConnectionClosed"
                ELSE IF up THEN "sent" ELSE "TransportError"

\* get() on a Browser that stop() has stopped: stop() closed self.connection
\* and kept it, "if not self.connection" is false, and the add_handler on the
\* closed Connection ends the call
GetStopped(b) ==
    /\ CanCall(b)
    /\ getc[b].pc = "idle" /\ getc[b].calls < MaxGets
    /\ connection[b] = "closed"
    /\ getc' = Set(getc, b, Ended(getc[b], send(connection[b], srvUp[b])))
    /\ UNCHANGED restVars
    /\ UNCHANGED lifeVars
    /\ UNCHANGED srvVars
    /\ UNCHANGED regVars

\* the operations that send on the root Connection after "if not
\* self.connection", and the CookieJar operations, which take the first tab
\* that is not closed and else the root Connection
RootOps == {"update_targets", "grant_all_permissions"}
CookieOps == {"cookies.get_all", "cookies.set_all", "cookies.clear"}

\* one of these operations called on a Browser whose root Connection is not
\* there or is closed; open_tab is whether a tab of the registry is not closed
Use(b, op, open_tab) ==
    /\ CanCall(b)
    /\ connection[b] \in {"None", "closed"}
    /\ open_tab => (op \in CookieOps /\ tabs(targets[b]) # <<>>)
    /\ LET conn == IF open_tab THEN "tab"
                   ELSE IF connection[b] = "None" THEN "None" ELSE "root"
           out == IF conn = "None" THEN "RuntimeError"
                  ELSE send(IF conn = "tab" THEN "open" ELSE connection[b], srvUp[b])
       IN use' = [op |-> op, on |-> b, conn |-> conn, out |-> out, sent |-> out = "sent"]
    /\ UNCHANGED <<sessionVars, cfgVars, jarVars, evtVars, conVars, iter>>

\* get(url, new_window=new) on a started Browser whose browser answers: make
\* the future, add get_handler, then send Target.createTarget on the root
\* Connection, or take tabs[0] (IndexError without a tab) and send
\* Page.navigate on the Connection of that tab
GetCall(b, url, new) ==
    /\ CanCall(b)
    /\ hnd[b].pc = "idle"
    /\ getc[b].pc = "idle" /\ getc[b].calls < MaxGets
    /\ connection[b] = "open" /\ srvUp[b]
    /\ UNCHANGED restVars
    /\ getc' = Set(getc, b,
         IF new THEN [Began(getc[b], url, new) EXCEPT !.pc = "create_sent"]
         ELSE IF tabs(targets[b]) = <<>>
         THEN Ended(Began(getc[b], url, new), "IndexError")
         ELSE [Began(getc[b], url, new) EXCEPT
                  !.pc = "navigate_sent",
                  !.tid = tabs(targets[b])[1].target.target_id,
                  !.conn = tabs(targets[b])[1].serial])
    /\ UNCHANGED lifeVars
    /\ UNCHANGED srvVars
    /\ UNCHANGED regVars

\* the browser handles Target.createTarget: it makes a page target, reports it
\* with a TargetCreated when discovery is on, then replies with its target-id
SrvCreateTarget(b) ==
    /\ getc[b].pc = "create_sent"
    /\ srvUp[b]
    /\ \E t \in WindowIds :
        /\ srv[b][t].st = "free"
        /\ \A u \in WindowIds : srv[b][u].st = "free" => t <= u
        /\ srv' = Set(srv, b, [srv[b] EXCEPT ![t] = LiveTarget("page", "about:blank")])
        /\ wire' = Set(wire, b,
                       Append(Emit(b, Notification("TargetCreated",
                                                   TargetInfo(t, "page", "about:blank"))),
                              Reply("createTarget", <<OnlyId(t)>>)))
    /\ UNCHANGED restVars
    /\ getc' = Set(getc, b, [getc[b] EXCEPT !.pc = "create_served"])
    /\ UNCHANGED <<srvUp, discover>>
    /\ UNCHANGED lifeVars
    /\ UNCHANGED regVars

\* the receive loop routes the reply to createTarget: the send of get()
\* returns the target-id
GetCreateReplied(b) ==
    /\ wire[b] # <<>>
    /\ Head(wire[b]).kind = "createTarget"
    /\ hnd[b].pc = "idle"
    /\ wire' = Set(wire, b, Tail(wire[b]))
    /\ UNCHANGED restVars
    /\ getc' = Set(getc, b, [getc[b] EXCEPT !.pc = "created",
                                           !.tid = Head(wire[b]).targets[1].target_id])
    /\ UNCHANGED <<srvUp, srv, discover>>
    /\ UNCHANGED lifeVars
    /\ UNCHANGED regVars

\* get() resumes with the target-id: "connection = self.get_target_by_id(...)",
\* ValueError when the registry has no page record with that id
GetLookup(b) ==
    /\ getc[b].pc = "created"
    /\ LET i == get_target_by_id(targets[b], getc[b].tid)
       IN getc' = Set(getc, b,
            IF i = 0 THEN Ended(getc[b], "ValueError")
            ELSE [getc[b] EXCEPT !.pc = "wait", !.conn = targets[b][i].serial,
                                 !.tid = targets[b][i].target.target_id])
    /\ UNCHANGED lifeVars
    /\ UNCHANGED srvVars
    /\ UNCHANGED regVars
    /\ UNCHANGED restVars

\* the browser handles Page.navigate for the tab: the target gets the url,
\* the browser reports the new info on the root Connection and replies on the
\* Connection of the tab, where the send of get() returns
SrvNavigate(b) ==
    /\ getc[b].pc = "navigate_sent"
    /\ srvUp[b]
    /\ srv[b][getc[b].tid].st = "live"
    /\ srv' = Set(srv, b, [srv[b] EXCEPT ![getc[b].tid].url = getc[b].url])
    /\ wire' = Set(wire, b, Emit(b, Notification("TargetInfoChanged",
                    TargetInfo(getc[b].tid, srv[b][getc[b].tid].type_, getc[b].url))))
    /\ UNCHANGED restVars
    /\ getc' = Set(getc, b, [getc[b] EXCEPT !.pc = "wait"])
    /\ UNCHANGED <<srvUp, discover>>
    /\ UNCHANGED lifeVars
    /\ UNCHANGED regVars

\* a target reports new info: the page of a new window has loaded its url, a
\* page has navigated by itself, a title has changed
SrvInfoChanged(b, t, url) ==
    /\ Attached(b)
    /\ RoomOnWire(b)
    /\ srv[b][t].st = "live"
    /\ srv' = Set(srv, b, [srv[b] EXCEPT ![t].url = url])
    /\ wire' = Set(wire, b, Emit(b, Notification("TargetInfoChanged",
                                    TargetInfo(t, srv[b][t].type_, url))))
    /\ UNCHANGED <<srvUp, discover>>
    /\ UNCHANGED lifeVars
    /\ UNCHANGED regVars
    /\ UNCHANGED <<restVars, getc>>

\* "self.connection.remove_handlers(event_type, get_handler)": the line after
\* the wait_for, which only a call that did not raise gets to
remove_handlers(g) == g.added - 1

\* "await asyncio.wait_for(future, 10)" with the future set: remove
\* get_handler and return the record
GetReturn(b) ==
    /\ getc[b].pc = "wait"
    /\ getc[b].future = "done"
    /\ UNCHANGED restVars
    /\ getc' = Set(getc, b,
         [Ended(getc[b], "returned") EXCEPT
             !.added = remove_handlers(getc[b]),
             !.log = Append(@, [new |-> getc[b].new, tid |-> getc[b].tid,
                                serial |-> getc[b].conn])])
    /\ UNCHANGED lifeVars
    /\ UNCHANGED srvVars
    /\ UNCHANGED regVars

\* the 10 s of wait_for pass with the future not set: TimeoutError
GetTimeout(b) ==
    /\ getc[b].pc = "wait"
    /\ getc[b].future = "pending"
    /\ UNCHANGED restVars
    /\ getc' = Set(getc, b, Ended(getc[b], "TimeoutError"))
    /\ UNCHANGED lifeVars
    /\ UNCHANGED srvVars
    /\ UNCHANGED regVars

\* ----------------------------------------------------------- specifications
\* start() to its end, in every mode
Starting(b) ==
    \/ StartCall(b)
    \/ StartNoExecutable(b)
    \/ \E ok \in BOOLEAN : Poll(b, ok)
    \/ DiscoveryFailed(b)
    \/ StopNothing(b)
    \/ StopClose(b)
    \/ StopTerminate(b)
    \/ ProcessExits(b)
    \/ StopPoll(b)
    \/ StopKill(b)
    \/ StopWait(b)
    \/ StopCleanup(b)
    \/ \E ok \in BOOLEAN : rmtree(b, ok)
    \/ OpenConnection(b)
    \/ InstallHandlers(b)
    \/ SendDiscover(b)
    \/ SrvDiscover(b)
    \/ DiscoverReplied(b)
    \/ SeedCall(b)
    \/ SrvGetTargets(b)
    \/ GetTargetsReplied(b)
    \/ UpdateReconcile(b)

\* the registry at work: notifications, their handlers, update_targets()
Registry(b) ==
    \/ \E ty \in Types : SrvCreate(b, ty)
    \/ \E t \in Ids, url \in Urls : SrvChange(b, t, url)
    \/ \E t \in Ids : SrvDestroy(b, t)
    \/ \E t \in Ids : SrvCrash(b, t)
    \/ _handle_target_info_changed(b)
    \/ _handle_target_created(b)
    \/ _handle_target_destroyed(b)
    \/ _handle_target_crashed(b)
    \/ update_targets(b)

\* one Browser, started and then kept in step with its browser
Next == Starting("b1") \/ Registry("b1")

Spec == Init /\ [][Next]_vars

\* Two Browsers, each attached to a browser of its own, each on an event loop
\* of its own (a thread per loop): a step of one falls between any two steps
\* of the other, so the lock is taken and released in steps of their own.
InitTwo ==
    /\ InitWith(Browsers)
    /\ \A b \in Browsers : config[b] = [host_port |-> "user", autodiscover |-> TRUE]
    /\ \A b \in Browsers : profile[b] = Profile(FALSE)

Attaching(b) ==
    \/ StartCall(b)
    \/ \E ok \in BOOLEAN : Poll(b, ok)
    \/ DiscoveryFailed(b)
    \/ StopNothing(b)
    \/ OpenConnection(b)
    \/ InstallHandlers(b)
    \/ SendDiscover(b)
    \/ SrvDiscover(b)
    \/ DiscoverReplied(b)
    \/ SeedCall(b)
    \/ SrvGetTargets(b)
    \/ GetTargetsReplied(b)
    \/ HandlerEnter(b)
    \/ HandlerLeave(b)
    \/ UpdateEnter(b)
    \/ UpdateLeave(b)

NextTwo == \E b \in Browsers : Attaching(b)

SpecTwo == InitTwo /\ [][NextTwo]_vars

\* The life of a Browser made from any Config: start(), stop(), start() again,
\* the process dying under it, and the Browser that create() makes for a
\* start() on a dead process.
InitLife == InitWith({"b1"})

Life(b) ==
    \/ StartCall(b)
    \/ StartNoExecutable(b)
    \/ \E c \in Browsers : StartRestart(b, c)
    \/ StartIgnored(b)
    \/ \E ok \in BOOLEAN : Poll(b, ok)
    \/ DiscoveryFailed(b)
    \/ OpenConnection(b)
    \/ InstallHandlers(b)
    \/ StartSendFails(b)
    \/ SendDiscover(b)
    \/ SrvDiscover(b)
    \/ DiscoverReplied(b)
    \/ SeedCall(b)
    \/ SrvGetTargets(b)
    \/ GetTargetsReplied(b)
    \/ UpdateReconcile(b)
    \/ UpdateFails(b)
    \/ _handle_target_created(b)
    \/ StopCall(b)
    \/ StopNothing(b)
    \/ StopClose(b)
    \/ StopAclose(b)
    \/ StopAcloseRaises(b)
    \/ StopTerminate(b)
    \/ ProcessExits(b)
    \/ StopPoll(b)
    \/ StopKill(b)
    \/ StopWait(b)
    \/ StopCleanup(b)
    \/ \E ok \in BOOLEAN : rmtree(b, ok)
    \/ ProcessDies(b)
    \/ stopped(b)

NextLife == \E b \in Browsers : Life(b)

SpecLife == InitLife /\ [][NextLife]_vars


\* One Browser made from the default Config, started against a browser that
\* answers, then used through get(): new windows and navigations of the main
\* tab, with the targets reporting info changes of their own.
Getting(b) ==
    \/ StartCall(b)
    \/ Poll(b, TRUE)
    \/ OpenConnection(b)
    \/ InstallHandlers(b)
    \/ SendDiscover(b)
    \/ SrvDiscover(b)
    \/ DiscoverReplied(b)
    \/ SeedCall(b)
    \/ SrvGetTargets(b)
    \/ GetTargetsReplied(b)
    \/ UpdateReconcile(b)
    \/ _handle_target_created(b)
    \/ _handle_target_info_changed(b)
    \/ GetNotStarted(b)
    \/ \E url \in Urls, new \in BOOLEAN : GetCall(b, url, new)
    \/ SrvCreateTarget(b)
    \/ GetCreateReplied(b)
    \/ GetLookup(b)
    \/ SrvNavigate(b)
    \/ \E t \in AllIds, url \in Urls : SrvInfoChanged(b, t, url)
    \/ GetReturn(b)
    \/ GetTimeout(b)

NextGet == Getting("b1")

SpecGet == Init /\ [][NextGet]_vars

\* One Browser made from the default Config, with the operations that need a
\* started Browser called before start(), and after stop() has stopped it.
Using(b) ==
    \/ StartCall(b)
    \/ Poll(b, TRUE)
    \/ OpenConnection(b)
    \/ InstallHandlers(b)
    \/ SendDiscover(b)
    \/ SrvDiscover(b)
    \/ DiscoverReplied(b)
    \/ SeedCall(b)
    \/ SrvGetTargets(b)
    \/ GetTargetsReplied(b)
    \/ UpdateReconcile(b)
    \/ _handle_target_created(b)
    \/ StopCall(b)
    \/ StopNothing(b)
    \/ StopClose(b)
    \/ StopAclose(b)
    \/ StopTerminate(b)
    \/ StopPoll(b)
    \/ StopWait(b)
    \/ StopCleanup(b)
    \/ \E ok \in BOOLEAN : rmtree(b, ok)
    \/ GetNotStarted(b)
    \/ GetStopped(b)
    \/ \E op \in RootOps \cup CookieOps, open_tab \in BOOLEAN : Use(b, op, open_tab)

NextUse == Using("b1")

SpecUse == Init /\ [][NextUse]_vars

\* --------------------------------------------------------- for tab in browser
\* a loop begins: iter(browser) runs __iter__, which sets Browser._i or raises
LoopIter(b, l) ==
    /\ born[b]
    /\ iter.loops[l].pc = "idle"
    /\ LET it == __iter__(targets[b])
       IN iter' = IF it.raised # "none"
                  THEN [iter EXCEPT !.loops[l].pc = "left", !.loops[l].raised = it.raised,
                                    !.loops[l].over = tabs(targets[b]),
                                    !.loops[l].at = nextSerial[b]]
                  ELSE [iter EXCEPT !._i = it.i, !.loops[l].pc = "running",
                                    !.loops[l].over = tabs(targets[b]),
                                    !.loops[l].at = nextSerial[b]]
    /\ UNCHANGED <<sessionVars, cfgVars, jarVars, evtVars, conVars, use>>

\* the loop asks for its next tab: next(browser) runs __next__ on Browser._i;
\* a tab goes to the body, StopIteration ends the loop, any other exception
\* leaves it
LoopNext(b, l) ==
    /\ iter.loops[l].pc = "running"
    /\ LET n == __next__(targets[b], iter._i)
       IN iter' = CASE n.raised = "none" ->
                         [iter EXCEPT !._i = n.i, !.loops[l].yielded = Append(@, n.value)]
                    [] n.raised = "StopIteration" ->
                         [iter EXCEPT !._i = n.i, !.loops[l].pc = "done"]
                    [] OTHER ->
                         [iter EXCEPT !._i = n.i, !.loops[l].pc = "left",
                                      !.loops[l].raised = n.raised]
    /\ UNCHANGED <<sessionVars, cfgVars, jarVars, evtVars, conVars, use>>

\* One Browser made from the default Config, started, its browser opening and
\* closing targets, and two loops over the Browser, one begun inside the body
\* of the other or each in a task of its own.
Iterating(b) ==
    \/ StartCall(b)
    \/ Poll(b, TRUE)
    \/ OpenConnection(b)
    \/ InstallHandlers(b)
    \/ SendDiscover(b)
    \/ SrvDiscover(b)
    \/ DiscoverReplied(b)
    \/ SeedCall(b)
    \/ SrvGetTargets(b)
    \/ GetTargetsReplied(b)
    \/ UpdateReconcile(b)
    \/ \E ty \in Types : SrvCreate(b, ty)
    \/ \E t \in Ids : SrvDestroy(b, t)
    \/ _handle_target_created(b)
    \/ _handle_target_destroyed(b)
    \/ \E l \in Loops : LoopIter(b, l)
    \/ \E l \in Loops : LoopNext(b, l)

NextIter == Iterating("b1")

SpecIter == Init /\ [][NextIter]_vars


\* ------------------------------------------------------------------ Config
\* tempfile.mkdtemp(prefix='uc_'): a directory that was not there before
mkdtemp == TempDir(dirs.made + 1)
\* Config.user_data_dir (getter): the Config after the read; an unset path is
\* generated lazily, and the Config keeps it
get_user_data_dir(c) ==
    IF c._user_data_dir = None
    THEN [c EXCEPT !._user_data_dir = mkdtemp, !._custom_data_dir = FALSE]
    ELSE c
\* the directories after Config.user_data_dir was read
AfterRead(c) ==
    IF c._user_data_dir = None
    THEN [made |-> dirs.made + 1, live |-> dirs.live \cup {mkdtemp}]
    ELSE dirs
CanRead(c) == c._user_data_dir # None \/ dirs.made < MaxDirs

\* "arg in args"
InList(arg, args) == \E i \in 1..Len(args) : args[i] = arg
HostOf(hp) == IF hp = "user" THEN <<"10.0.0.2">> ELSE <<"127.0.0.1">>
PortOf(hp) == IF hp = "user" THEN <<"9222">> ELSE <<"free_port">>

\* Config.__call__ on a Config whose user_data_dir was read, in three parts.
\* The arguments before the caller's: the defaults, the profile, the fixed
\* ones and those of expert mode
first_args(c) ==
    LET a0 == _default_browser_args
              \o << <<"--user-", "data-dir", "=">> \o c._user_data_dir >>
              \o << <<"--disable-features=IsolateOrigins,site-per-process">> >>
              \o << <<"--disable-session-crashed-bubble">> >>
    IN IF c.expert
       THEN a0 \o <<disable_web_security, <<"--disable-site-isolation-trials">> >>
       ELSE a0
user_args_reversed(c) ==
    LET q == SelectSeq(c._browser_args, LAMBDA arg : ~InList(arg, first_args(c)))
    IN [i \in 1..Len(q) |-> q[Len(q) + 1 - i]]
\* "[arg for arg in self._browser_args if arg not in args]"
user_args(c) ==
    SelectSeq(c._browser_args, LAMBDA arg : ~InList(arg, first_args(c)))
\* the arguments of the options, appended after the caller's
last_args(c) ==
    LET a3 == IF c.headless THEN <<headless_new>> ELSE <<>>
        a4 == IF c.user_agent # None THEN Append(a3, <<"--user-agent=">> \o c.user_agent) ELSE a3
        a5 == IF ~c.sandbox THEN Append(a4, no_sandbox) ELSE a4
        a6 == IF c.host_port # "none"
              THEN Append(a5, <<"--remote-debugging-host=">> \o HostOf(c.host_port))
              ELSE a5
    IN IF c.host_port # "none"
       THEN Append(a6, <<"--remote-debugging-port=">> \o PortOf(c.host_port))
       ELSE a6
__call__(c) == first_args(c) \o user_args(c) \o last_args(c)

\* the words Config.add_argument looks for
Reserved == {"headless", "data-dir", "data_dir", "no-sandbox", "no_sandbox", "lang"}
\* the test of Config.add_argument: "any(x in arg.lower() for x in [...])"
Refused(arg) == \E x \in Reserved : Contains(lower(arg), x)
\* Config.add_argument: the Config after the call (as it was when it raises)
add_argument(c, arg) ==
    IF Refused(arg) THEN c ELSE [c EXCEPT !._browser_args = Append(@, arg)]

\* the caller calls config.add_argument(arg)
ConfigAddArgument(arg) ==
    /\ objs["caller"].made
    /\ Len(objs["caller"]._browser_args) < MaxArgs
    /\ objs' = [objs EXCEPT !["caller"] = add_argument(@, arg)]
    /\ said' = [op |-> "add_argument", arg |-> arg,
                out |-> IF Refused(arg) THEN "ValueError" ELSE "ok",
                args |-> <<>>, before |-> objs["caller"]._browser_args]
    /\ UNCHANGED <<cfgref, dirs, launch, root>>
    /\ UNCHANGED notConfig

\* the caller calls config()
ConfigCall ==
    /\ objs["caller"].made
    /\ CanRead(objs["caller"])
    /\ objs' = [objs EXCEPT !["caller"] = get_user_data_dir(@)]
    /\ dirs' = AfterRead(objs["caller"])
    /\ said' = [op |-> "__call__", arg |-> None, out |-> "ok",
                args |-> __call__(objs'["caller"]), before |-> objs["caller"]._browser_args]
    /\ UNCHANGED <<cfgref, launch, root>>
    /\ UNCHANGED notConfig

\* the caller prints its Config: Config.__repr__ reads every property of the
\* class, user_data_dir among them
ConfigRepr ==
    /\ objs["caller"].made
    /\ CanRead(objs["caller"])
    /\ objs' = [objs EXCEPT !["caller"] = get_user_data_dir(@)]
    /\ dirs' = AfterRead(objs["caller"])
    /\ said' = [op |-> "__repr__", arg |-> None, out |-> "ok",
                args |-> <<>>, before |-> objs["caller"]._browser_args]
    /\ UNCHANGED <<cfgref, launch, root>>
    /\ UNCHANGED notConfig

\* copy.deepcopy(config): the cell of the copy that Browser b keeps
same_object(b) == "caller"
deepcopy(b) == b

\* Browser.__init__(config) with the caller's Config
BrowserInit(b) ==
    /\ objs["caller"].made
    /\ launch[b].out = "none"
    /\ cfgref' = [cfgref EXCEPT ![b] = deepcopy(b)]
    /\ objs' = [objs EXCEPT ![cfgref'[b]] = objs["caller"]]
    /\ launch' = [launch EXCEPT ![b].out = "made"]
    /\ UNCHANGED <<dirs, said, root>>
    /\ UNCHANGED notConfig

\* ",".join(str(_) for _ in self.config._extensions)
RECURSIVE join(_)
join(ext) == IF Len(ext) = 0 THEN <<>>
             ELSE IF Len(ext) = 1 THEN ext[1]
             ELSE ext[1] \o <<",">> \o join(Tail(ext))

\* start() of a Browser that was not started, up to the launch: host and
\* port, the executable, the --load-extension and --lang arguments, the
\* params and the process
StartLaunch(b, exe) ==
    /\ launch[b].out = "made"
    /\ CanRead(objs[cfgref[b]])
    /\ LET c0 == objs[cfgref[b]]
           c1 == IF connect_existing(c0) THEN c0 ELSE [c0 EXCEPT !.host_port = "auto"]
           load == <<"--load-extension=">> \o join(c1._extensions)
           c2 == IF c1._extensions # <<>> THEN add_argument(c1, load) ELSE c1
           lang == <<"--", "lang", "=">> \o c2.lang[1]
           c3 == IF c2.lang # None THEN add_argument(c2, lang) ELSE c2
           c4 == get_user_data_dir(c3)
       IN IF ~connect_existing(c0) /\ ~exe
          THEN /\ objs' = [objs EXCEPT ![cfgref[b]] = c1]
               /\ launch' = [launch EXCEPT ![b].out = "FileNotFoundError"]
               /\ dirs' = dirs
          ELSE IF c1._extensions # <<>> /\ Refused(load)
          THEN /\ objs' = [objs EXCEPT ![cfgref[b]] = c1]
               /\ launch' = [launch EXCEPT ![b].out = "ValueError"]
               /\ dirs' = dirs
          ELSE IF c2.lang # None /\ Refused(lang)
          THEN /\ objs' = [objs EXCEPT ![cfgref[b]] = c2]
               /\ launch' = [launch EXCEPT ![b].out = "ValueError"]
               /\ dirs' = dirs
          ELSE /\ objs' = [objs EXCEPT ![cfgref[b]] = c4]
               /\ launch' = [launch EXCEPT ![b] = [out |-> "started",
                                                   params |-> Append(__call__(c4), about_blank),
                                                   running |-> TRUE]]
               /\ dirs' = [AfterRead(c3) EXCEPT !.live = @ \cup {c4._user_data_dir}]
    /\ UNCHANGED <<cfgref, said, root>>
    /\ UNCHANGED notConfig

\* stop() of a started Browser as the profile sees it: the process ends and
\* _cleanup_temporary_profile() removes the directory of a Config that does
\* not use a custom one (ok: rmtree got through within its attempts)
StopProfile(b, ok) ==
    /\ launch[b].running
    /\ CanRead(objs[cfgref[b]])
    /\ LET c0 == objs[cfgref[b]]
           c1 == IF c0._custom_data_dir THEN c0 ELSE get_user_data_dir(c0)
           d1 == IF c0._custom_data_dir THEN dirs ELSE AfterRead(c0)
       IN /\ objs' = [objs EXCEPT ![cfgref[b]] = c1]
          /\ dirs' = IF ~c0._custom_data_dir /\ ok
                     THEN [d1 EXCEPT !.live = @ \ {c1._user_data_dir}]
                     ELSE d1
    /\ launch' = [launch EXCEPT ![b].out = "stopped", ![b].running = FALSE]
    /\ UNCHANGED <<cfgref, said, root>>
    /\ UNCHANGED notConfig

\* the caller makes its Config: Config(user_data_dir=udd, headless=hl, ...);
\* a custom profile directory is one that is there
ConfigInit(udd, hl, bargs, sb, lg, hp, ex, ua, ext) ==
    /\ ~objs["caller"].made
    /\ objs' = [objs EXCEPT !["caller"] = Config(udd, hl, bargs, sb, lg, hp, ex, ua, ext)]
    /\ dirs' = [dirs EXCEPT !.live = IF udd = None THEN @ ELSE @ \cup {udd}]
    /\ said' = [op |-> "__init__", arg |-> None, out |-> "ok", args |-> <<>>, before |-> bargs]
    /\ UNCHANGED <<cfgref, launch, root>>
    /\ UNCHANGED notConfig

BoundedSeq(S, n) == UNION {[1..k -> S] : k \in 0..n}
\* no Config yet, as root or not
InitConfig ==
    /\ NoSession
    /\ NoConfigs
    /\ root \in BOOLEAN
    /\ JarIdle
    /\ RegistryIdle
    /\ ConnectionIdle

NextConfig ==
    \/ \E udd \in {None, CustomDir}, hl \in BOOLEAN, sb \in BOOLEAN, ex \in BOOLEAN,
          ua \in {None, Agent}, bargs \in BoundedSeq(UserArgs, MaxArgs) :
          ConfigInit(udd, hl, bargs, sb, None, "none", ex, ua, <<>>)
    \/ \E arg \in UserArgs : ConfigAddArgument(arg)
    \/ ConfigCall

\* one Config, made by the caller with any options, then added to and called
SpecConfig == InitConfig /\ [][NextConfig]_vars

\* a Config used as the template of the Browsers
InitTemplate ==
    /\ NoSession
    /\ ConfigIdle
    /\ JarIdle
    /\ RegistryIdle
    /\ ConnectionIdle

NextTemplate ==
    \/ \E udd \in {None, CustomDir}, lg \in {None, Some(Tag)}, hp \in {"none", "user"},
          ext \in {<<>>, <<Extension>>} :
          ConfigInit(udd, FALSE, <<>>, TRUE, lg, hp, FALSE, None, ext)
    \/ ConfigCall
    \/ ConfigRepr
    \/ \E b \in Browsers : BrowserInit(b)
    \/ \E b \in Browsers, exe \in BOOLEAN : StartLaunch(b, exe)
    \/ \E b \in Browsers, ok \in BOOLEAN : StopProfile(b, ok)

SpecTemplate == InitTemplate /\ [][NextTemplate]_vars

\* --------------------------------------------------------------- CookieJar
\* cookies of the browser (cdp.network.Cookie: name, value, domain; the other
\* fields are the same for all of them)
cf_clearance == [name |-> <<"cf", "_clearance">>, value |-> <<"abc">>,
                 domain |-> <<".example.com">>]
sid == [name |-> <<"sid">>, value |-> <<"xyz">>, domain |-> <<".", "nowsecure", ".nl">>]
theme == [name |-> <<"theme">>, value |-> <<"dark">>, domain |-> <<".example.com">>]
Cookies == {cf_clearance, sid, theme}
\* the pattern argument of save(): the default and two words
Patterns == {".*", "cf", "nowsecure"}

\* str(cookie.__dict__)
str_dict(cookie) ==
    <<"{'name': '">> \o cookie.name \o <<"', 'value': '">> \o cookie.value
        \o <<"', 'domain': '">> \o cookie.domain \o <<"', 'path': '/', 'secure': True}">>
\* "for _match in compiled_pattern.finditer(text)" has a first match: '.*'
\* matches in any text, a word where the text holds it
finditer(pattern, text) == pattern = ".*" \/ Contains(text, pattern)
\* the included_cookies of save()
included_cookies(cookies, pattern) ==
    SelectSeq(cookies, LAMBDA cookie : finditer(pattern, str_dict(cookie)))

\* CookieJar.save(file, pattern): the Connection is the first tab that is not
\* closed, else browser.connection; RuntimeError without one.  The cookies
\* are fetched twice and the second list is the one used.
Save(pattern) ==
    /\ IF jar.conn = "None"
       THEN /\ jar' = [jar EXCEPT !.pattern = pattern, !.out = "RuntimeError",
                                  !.cookies = <<>>, !.included = <<>>]
            /\ files' = files
       ELSE /\ jar' = [jar EXCEPT !.pattern = pattern, !.out = "ok", !.cookies = store,
                                  !.included = included_cookies(store, pattern)]
            /\ files' = [written |-> TRUE, cookies |-> store]
    /\ UNCHANGED store
    /\ UNCHANGED notJar

\* the browser gets a cookie from a page
SrvSetCookie(cookie) ==
    /\ Len(store) < MaxCookies
    /\ ~InList(cookie, store)
    /\ store' = Append(store, cookie)
    /\ UNCHANGED <<files, jar>>
    /\ UNCHANGED notJar

\* the browser's cookies are cleared
SrvClearCookies ==
    /\ store # <<>>
    /\ store' = <<>>
    /\ UNCHANGED <<files, jar>>
    /\ UNCHANGED notJar

\* a CookieJar of a Browser with an open tab, with the root Connection only,
\* or not started
InitJar ==
    /\ NoSession
    /\ ConfigIdle
    /\ RegistryIdle
    /\ ConnectionIdle
    /\ store = <<>>
    /\ files = [written |-> FALSE, cookies |-> <<>>]
    /\ \E conn \in {"tab", "root", "None"} : jar = [NoSave EXCEPT !.conn = conn]

NextJar ==
    \/ \E pattern \in Patterns : Save(pattern)
    \/ \E cookie \in Cookies : SrvSetCookie(cookie)
    \/ SrvClearCookies

SpecJar == InitJar /\ [][NextJar]_vars

\* ---------------------------------------------------- the event-type registry
\* event classes, as the protocol modules define them: dataclasses, whose
\* type is type
TargetCreated == [name |-> "TargetCreated", meta |-> "type"]
TargetDestroyed == [name |-> "TargetDestroyed", meta |-> "type"]
FrameNavigated == [name |-> "FrameNavigated", meta |-> "type"]
Classes == {TargetCreated, TargetDestroyed, FrameNavigated}

\* "_event_types_map[method] = cls"
setitem(map, method, cls) ==
    [m \in DOMAIN map \cup {method} |-> IF m = method THEN cls ELSE map[m]]
\* get_event_types()
get_event_types == _event_types_map
\* is_event_type(type_); every class has __hash__ and __eq__
is_event_type(type_) ==
    /\ type_.meta = "type"
    /\ type_ \in _event_types

\* @event_type(method) on class cls: decorate(cls)
event_type(method, cls) ==
    /\ _event_types_map' = setitem(_event_types_map, method, cls)
    /\ _event_types' = _event_types \cup {cls}
    /\ UNCHANGED notRegistry

InitRegistry ==
    /\ NoSession
    /\ ConfigIdle
    /\ JarIdle
    /\ ConnectionIdle
    /\ RegistryIdle

NextRegistry == \E method \in Methods, cls \in Classes : event_type(method, cls)

SpecRegistry == InitRegistry /\ [][NextRegistry]_vars

\* -------------------------------------------------------------- Connection
\* The Connection class is not among the sources; this part follows spec.md
\* 3 (message id, pending reply), 4.B (id allocation), 4.C (transport, close),
\* 4.D (send, routing step, state machine) and 5 (cancellation).
\* a send() call: its Connection, its message id (0: none allocated), its
\* future, the send whose response completed it (0: none), how often the
\* future was completed, how often its pending reply was removed and by what
SendRec(k, id, fut) == [conn |-> k, id |-> id, fut |-> fut, by |-> 0, completions |-> 0,
                        removed |-> 0, how |-> "none"]
\* a frame: a request or its response, with the send() that it stems from
Frame(id, s) == [id |-> id, for |-> s]
\* the ids of the pending-reply table of a Connection
PendingIds(k) == {e.id : e \in pending[k]}

\* the codec's allocation: a counter that only grows
allocate_lowest_free(k) == CHOOSE i \in 1..(MaxSends + 1) :
                               /\ i \notin PendingIds(k)
                               /\ \A j \in 1..(i - 1) : j \in PendingIds(k)
allocate(k) == nextId

\* [new] --attach()--> [open]
Attach(k) ==
    /\ cstate[k] = "new"
    /\ cstate' = [cstate EXCEPT ![k] = "open"]
    /\ UNCHANGED <<nextId, pending, sends, cwire>>
    /\ UNCHANGED notConnection

\* send(command) on an open Connection: allocate an id, hand the request to
\* the transport, register the pending reply
Send(k) ==
    /\ cstate[k] = "open"
    /\ Len(sends) < MaxSends
    /\ LET id == allocate(k)
           s == Len(sends) + 1
       IN /\ nextId' = nextId + 1
          /\ sends' = Append(sends, SendRec(k, id, "pending"))
          /\ pending' = [pending EXCEPT ![k] = {e \in @ : e.id # id} \cup {[id |-> id, send |-> s]}]
          /\ cwire' = [cwire EXCEPT ![k].server = Append(@, Frame(id, s))]
    /\ UNCHANGED cstate
    /\ UNCHANGED notConnection

\* send(command) on a Connection that is closing or closed: fails with
\* "connection closed", nothing is sent
SendClosed(k) ==
    /\ cstate[k] \in {"closing", "closed"}
    /\ Len(sends) < MaxSends
    /\ sends' = Append(sends, [SendRec(k, 0, "failed") EXCEPT !.completions = 1])
    /\ UNCHANGED <<cstate, nextId, pending, cwire>>
    /\ UNCHANGED notConnection

\* the browser answers one of the requests it holds
SrvRespond(k, i) ==
    /\ i \in 1..Len(cwire[k].server)
    /\ cwire' = [cwire EXCEPT ![k].server = RemoveAt(@, i),
                              ![k].back = Append(@, cwire[k].server[i])]
    /\ UNCHANGED <<cstate, nextId, pending, sends>>
    /\ UNCHANGED notConnection

\* the future of the send of a pending reply is completed and the entry removed
Complete(ss, e, fut, how, by) ==
    [ss EXCEPT ![e.send].fut = fut, ![e.send].by = by, ![e.send].completions = @ + 1,
               ![e.send].removed = @ + 1, ![e.send].how = how]
\* the same for every entry of a set
RECURSIVE CompleteAll(_, _, _, _)
CompleteAll(ss, es, fut, how) ==
    IF es = {} THEN ss
    ELSE LET e == CHOOSE x \in es : TRUE
         IN CompleteAll(Complete(ss, e, fut, how, 0), es \ {e}, fut, how)

\* routing step for a response: complete the pending reply with its id if
\* there is one, else log and drop
Route(k) ==
    /\ cstate[k] \in {"open", "closing"}
    /\ cwire[k].back # <<>>
    /\ LET frame == Head(cwire[k].back)
           found == {e \in pending[k] : e.id = frame.id}
       IN /\ sends' = IF found = {} THEN sends
                      ELSE Complete(sends, CHOOSE e \in found : TRUE, "done", "response",
                                    frame.for)
          /\ pending' = [pending EXCEPT ![k] = @ \ found]
    /\ cwire' = [cwire EXCEPT ![k].back = Tail(@)]
    /\ UNCHANGED <<cstate, nextId>>
    /\ UNCHANGED notConnection

\* the caller cancels the future of send s (a deadline of its own): the
\* pending reply is removed
Cancel(s) ==
    /\ s \in 1..Len(sends)
    /\ sends[s].fut = "pending"
    /\ LET k == sends[s].conn
           found == {e \in pending[k] : e.send = s}
       IN /\ sends' = CompleteAll(sends, found, "cancelled", "cancel")
          /\ pending' = [pending EXCEPT ![k] = @ \ found]
    /\ UNCHANGED <<cstate, nextId, cwire>>
    /\ UNCHANGED notConnection

\* the pending replies left after the transport closed
close_keeps_pending(k) == pending[k]
close_pending(k) == {}

\* [open] --close()--> [closing]: every pending reply fails with "transport
\* closed"
Close(k) ==
    /\ cstate[k] = "open"
    /\ cstate' = [cstate EXCEPT ![k] = "closing"]
    /\ pending' = [pending EXCEPT ![k] = close_pending(k)]
    /\ sends' = CompleteAll(sends, pending[k] \ pending'[k], "failed", "close")
    /\ UNCHANGED <<nextId, cwire>>
    /\ UNCHANGED notConnection

\* [closing] --drained--> [closed]: the receive loop has ended
Drained(k) ==
    /\ cstate[k] = "closing"
    /\ cstate' = [cstate EXCEPT ![k] = "closed"]
    /\ cwire' = [cwire EXCEPT ![k] = [server |-> <<>>, back |-> <<>>]]
    /\ UNCHANGED <<nextId, pending, sends>>
    /\ UNCHANGED notConnection

\* [open] --transport-error--> [closed]: every in-flight send fails
TransportError(k) ==
    /\ cstate[k] = "open"
    /\ cstate' = [cstate EXCEPT ![k] = "closed"]
    /\ pending' = [pending EXCEPT ![k] = close_pending(k)]
    /\ sends' = CompleteAll(sends, pending[k] \ pending'[k], "failed", "close")
    /\ cwire' = [cwire EXCEPT ![k] = [server |-> <<>>, back |-> <<>>]]
    /\ UNCHANGED nextId
    /\ UNCHANGED notConnection

InitConnection ==
    /\ NoSession
    /\ ConfigIdle
    /\ JarIdle
    /\ RegistryIdle
    /\ ConnectionIdle

NextConnection ==
    \/ \E k \in Conns : Attach(k)
    \/ \E k \in Conns : Send(k)
    \/ \E k \in Conns : SendClosed(k)
    \/ \E k \in Conns, i \in 1..MaxSends : SrvRespond(k, i)
    \/ \E k \in Conns : Route(k)
    \/ \E s \in 1..MaxSends : Cancel(s)
    \/ \E k \in Conns : Close(k)
    \/ \E k \in Conns : Drained(k)
    \/ \E k \in Conns : TransportError(k)

SpecConnection == InitConnection /\ [][NextConnection]_vars

\* ------------------------------------------------------------------- claims
SameId(r, q) == r.target.target_id = q.target.target_id
Quiescent(b) ==
    /\ spc[b] = "idle" /\ stp[b].pc = "idle"
    /\ wire[b] = <<>> /\ hnd[b].pc = "idle" /\ upd[b].pc = "idle"
EndKinds == {"TargetDestroyed", "TargetCrashed"}
\* the serials of the records of type page
PageSerials(tgts) == {tgts[i].serial : i \in {k \in 1..Len(tgts) : tgts[k].target.type_ = "page"}}
\* a registry mutation of the Browser is under way, the lock taken
InRegistryUpdate(b) == hnd[b].pc = "cs" \/ upd[b].pc = "locked"
\* the start() call got past the executable check, to the spawn decision
Decided(b) == result[b].state \in {"running", "ok", "error"}
\* the steps of a start() that returns, in program order
StartSteps(spawned, polled, auto) ==
    (IF spawned THEN <<"spawn">> ELSE <<>>)
        \o (IF polled THEN <<"discovery">> ELSE <<>>)
        \o <<"connection">>
        \o (IF auto THEN <<"handlers", "discover">> ELSE <<>>)
        \o <<"update_targets">>
\* start() is past "if not self.info"
PastPolling(b) ==
    spc[b] \in {"connected", "installed", "discover", "discover_replied", "discovered", "seed"}

\* the last start() call has ended, and none of its max-tries requests was answered
DiscoveryExhausted(b) ==
    /\ spc[b] = "idle" /\ stp[b].pc = "idle"
    /\ result[b].state \in {"ok", "error"}
    /\ tries[b] = MaxTries /\ ~result[b].polledOk

\* the steps of stop() in program order
StopRank(name) ==
    CASE name \in {"close_sent", "close_failed"} -> 1
      [] name = "aclose" -> 2
      [] name = "terminate" -> 3
      [] name = "kill" -> 4
      [] name = "wait" -> 5
      [] name = "cleanup" -> 6
StepsOf(rec) == {rec.steps[i] : i \in 1..Len(rec.steps)}
\* a step of a stop() call of the Browser, its ends included
InStop(b) == stp[b].pc # "idle" /\ stp'[b] # stp[b]
\* the stop() call of the Browser ends with this step
StopEnding(b) == stp[b].pc # "idle" /\ stp'[b].pc = "idle"

\* the get() calls of the Browser so far all returned, and all asked for a
\* new window
AllNewWindows(b) ==
    /\ getc[b].pc = "idle"
    /\ getc[b].calls = Len(getc[b].log)
    /\ \A k \in 1..Len(getc[b].log) : getc[b].log[k].new
\* the records of type page made for targets of Target.createTarget
IsWindow(r) == r.target.type_ = "page" /\ r.target.target_id \in WindowIds
\* the target-ids of a sequence of records, in its order
IdSeq(recs) == [k \in 1..Len(recs) |-> recs[k].target.target_id]

\* the Browser's start() got as far as judging its arguments
Launching(b) == launch[b].out \in {"started", "ValueError"}
\* f'--lang={self.config.lang}'
LangArg(c) == <<"--", "lang", "=">> \o c.lang[1]

\* the caller's arguments that name an option the Config has an attribute for
\* (headless, the data dir, no-sandbox, lang)
NamesOption(arg) == arg \in {no_sandbox, HEADLESS}

\* the elements of sub are in args past position d, in the order of sub
InOrderAfter(sub, args, d) ==
    \E f \in [1..Len(sub) -> (d + 1)..Len(args)] :
        /\ \A i \in 1..Len(sub) : args[f[i]] = sub[i]
        /\ \A i, j \in 1..Len(sub) : i < j => f[i] < f[j]
\* the caller's arguments that the list config() builds does not hold yet
NotFirst(user, c) == SelectSeq(user, LAMBDA arg : ~InList(arg, first_args(c)))

\* the cookie has a name, value or domain field that the pattern matches
HasMatchingField(cookie, pattern) ==
    \/ pattern = ".*"
    \/ \E f \in {"name", "value", "domain"} : Contains(cookie[f], pattern)

\* the class is the value of some method name in the registry
Mapped(cls) == \E m \in DOMAIN get_event_types : get_event_types[m] = cls

\* the pending reply of send s, if its Connection holds one
EntryOf(s) == {e \in pending[sends[s].conn] : e.send = s}
\* no frame of send s is with the browser or on its way back
Answered(s) ==
    LET w == cwire[sends[s].conn]
    IN /\ \A i \in 1..Len(w.server) : w.server[i].for # s
       /\ \A i \in 1..Len(w.back) : w.back[i].for # s
\* the ways a pending reply goes
Removals == {"response", "cancel", "close"}

\* a step of Browser b: its construction, its start() or its stop()
StepOf(b) ==
    \/ BrowserInit(b)
    \/ \E exe \in BOOLEAN : StartLaunch(b, exe)
    \/ \E ok \in BOOLEAN : StopProfile(b, ok)
\* f'--load-extension={",".join(...)}' of a Config
LoadArg(c) == <<"--load-extension=">> \o join(c._extensions)

\* a step that is a start() call on Browser b while its process runs
StartOnRunning(b) == process[b] = "running" /\ starts'[b] = starts[b] + 1

\* the Browser was never started, or its last stop() has returned and left it
\* without an open root Connection and without a process
NotRunning(b) == starts[b] = 0 \/ (stp[b].out = "returned" /\ Stopped(b))
\* a step that is a get() call on b from its first line to its end, and one
\* that is a call of update_targets(), grant_all_permissions() or a CookieJar
\* operation on b
GetCallOn(b) == getc[b].pc = "idle" /\ getc'[b].calls = getc[b].calls + 1
UseCallOn(b) == use' # use /\ use'.on = b

\* the page records of the Browser are the ones loop l began with: no record
\* was made and no page record removed since
SameTabs(b, l) ==
    /\ iter.loops[l].at = nextSerial[b]
    /\ iter.loops[l].over = tabs(targets[b])
\* the loop has ended over the page records it began with
EndedOver(b, l) ==
    /\ iter.loops[l].pc \in {"done", "left"}
    /\ SameTabs(b, l)
\* s is the beginning of t
Prefix(s, t) == Len(s) <= Len(t) /\ \A i \in 1..Len(s) : s[i] = t[i]

\* start() has opened the root Connection of the Browser and no stop() has
\* run to its end since
StartedNotStopped(b) ==
    \/ connection[b] \in {"new", "open"}
    \/ connection[b] = "closed" /\ stp[b].pc # "idle"

\* C1: whatever notifications and update_targets() calls were handled, in
\* whatever order, no two records of Browser.targets have the same target-id.
C1_NoTwoRecordsShareId ==
    \A b \in Browsers : \A i, j \in 1..Len(targets[b]) :
        i # j => ~SameId(targets[b][i], targets[b][j])

\* C2: when the handler of a TargetDestroyed or TargetCrashed notification for
\* target-id t has run, the registry holds no record with target-id t,
\* whatever the type of the record.
C2_EndedTargetHasNoRecord ==
    [][\A b \in Browsers : \A kind \in EndKinds :
          Handle(b, kind) => Head(wire[b]).info.target_id \notin IdsOf(targets'[b])]_vars

\* C3: at every quiescent moment the target-ids in Browser.targets are the
\* ids the browser reported (TargetCreated, getTargets) less those with a
\* handled TargetDestroyed or TargetCrashed.
C3_RegistryIsReportedLessEnded ==
    \A b \in Browsers : Quiescent(b) => IdsOf(targets[b]) = reported[b] \ gone[b]

\* C4: the reconciliation of update_targets() leaves a record for every
\* target of the reply (the first record with that target-id gets the reply's
\* info, a target without a record gets a new record at the end) and removes
\* or moves no record that was there before; a record the reply does not
\* mention is left as it was.
C4_ReconcileUpdatesOrCreates ==
    [][\A b \in Browsers : UpdateReconcile(b) =>
          LET old == targets[b]
              new == targets'[b]
              reply == upd[b].reply
              ReplyIds == {reply[k].target_id : k \in 1..Len(reply)}
          IN /\ ReplyIds \subseteq IdsOf(new)
             /\ Len(new) >= Len(old)
             /\ \A i \in 1..Len(old) :
                   /\ new[i].serial = old[i].serial
                   /\ SameId(new[i], old[i])
                   /\ old[i].target.target_id \notin ReplyIds => new[i] = old[i]
             /\ \A k \in 1..Len(reply) :
                   LET i == FirstWithId(old, reply[k].target_id)
                   IN IF i # 0
                      THEN new[i].target = reply[k]
                      ELSE \E j \in (Len(old) + 1)..Len(new) :
                              new[j].target = reply[k] /\ new[j].serial >= nextSerial[b]
             /\ Len(new) = Len(old) + Cardinality(ReplyIds \ IdsOf(old))]_vars

\* C4 witness: a reconciliation called by the user has updated a record in
\* place and left alone a record its reply did not mention
C4_Witness ==
    \E b \in Browsers :
        /\ upd[b].pc = "idle" /\ updCalls[b] > 0
        /\ {"updated", "kept"} \subseteq upd[b].did

\* C5: when the handler of a TargetInfoChanged notification for a target-id
\* that has a record has run, the info of that record is the info the
\* notification carried, whatever the type of the record.
C5_ChangedInfoIsStored ==
    [][\A b \in Browsers : _handle_target_info_changed(b) =>
          \A i \in 1..Len(targets'[b]) :
              targets'[b][i].target.target_id = Head(wire[b]).info.target_id
                  => targets'[b][i].target = Head(wire[b]).info]_vars

C7_MutexIsPerBrowser ==
    \A b \in Browsers :
        /\ InRegistryUpdate(b) => mutex[MutexOf(b)][1] = b
        /\ ~(hnd[b].pc = "cs" /\ upd[b].pc = "locked")
        /\ \A c \in Browsers \ {b} : mutex[MutexOf(b)][1] # c

\* C8: a start() call that gets as far as the spawn decision spawns a process
\* exactly when the user did not give both host and port.
C8_SpawnsUnlessUserGaveHostAndPort ==
    \A b \in Browsers :
        Decided(b) => (result[b].spawned <=> config[b].host_port # "user")

C10_PollingEndsWithUrlOrFailure ==
    \A b \in Browsers :
        /\ tries[b] <= MaxTries
        /\ spc[b] = "poll" => ~result[b].polledOk
        /\ PastPolling(b) => result[b].polledOk

\* C11: a start() whose max-tries discovery requests all failed has ended
\* with an error and without creating a root Connection; the registry is
\* empty and the Browser holds no process handle.
C11_FailedDiscoveryLeavesNothing ==
    \A b \in Browsers :
        DiscoveryExhausted(b) =>
            /\ result[b].state = "error"
            /\ "connection" \notin {result[b].steps[i] : i \in 1..Len(result[b].steps)}
            /\ targets[b] = <<>>
            /\ process[b] = "None"

\* C12: every step of a stop() called on a Browser that a stop() has already
\* stopped leaves the connection, the process handle, the registry and the
\* profile directory as they were, delivers nothing to the browser, signals
\* and waits for no process, and the call does not raise.
C12_StopIsIdempotent ==
    [][\A b \in Browsers : InStop(b) /\ stp[b].again =>
          /\ connection'[b] = connection[b]
          /\ process'[b] = process[b]
          /\ targets'[b] = targets[b]
          /\ profile'[b].dir = profile[b].dir
          /\ srvUp'[b] = srvUp[b]
          /\ StepsOf(stp'[b]) \cap {"close_sent", "terminate", "kill", "wait"} = {}
          /\ stp'[b].out # "raised"]_vars

\* C13: the steps a stop() call does are in program order (browser.close,
\* the close of the Connection, terminate, kill, wait, profile cleanup); a
\* stop() that sent browser.close closes the Connection, one that terminated
\* the process has waited for it when it returns, and the cleanup is its
\* last step; no step removes the profile directory while the Browser's
\* process runs.
C13_StopStepsInOrder ==
    [][\A b \in Browsers :
          /\ \A i, j \in 1..Len(stp'[b].steps) :
                i < j => StopRank(stp'[b].steps[i]) < StopRank(stp'[b].steps[j])
          /\ StopEnding(b) /\ stp'[b].out = "returned" =>
                /\ StepsOf(stp'[b]) \cap {"close_sent", "close_failed"} # {}
                       => "aclose" \in StepsOf(stp'[b])
                /\ "terminate" \in StepsOf(stp'[b]) => "wait" \in StepsOf(stp'[b])
                /\ stp'[b].steps # <<>> => stp'[b].steps[Len(stp'[b].steps)] = "cleanup"
                /\ process'[b] = "None"
          /\ profile[b].dir = "exists" /\ profile'[b].dir = "removed" =>
                process[b] = "None"]_vars

\* C13 witness: a stop() has sent browser.close, closed the Connection,
\* terminated the process, waited for it and removed the profile directory
C13_Witness ==
    \E b \in Browsers :
        /\ stp[b].out = "returned"
        /\ stp[b].steps = <<"close_sent", "aclose", "terminate", "wait", "cleanup">>
        /\ profile[b].dir = "removed"

\* C14: no stop() call ends with an exception, and a stop() call that ends
\* leaves the Browser without a process handle.
C14_StopNeverRaises ==
    [][\A b \in Browsers : StopEnding(b) =>
          stp'[b].out = "returned" /\ process'[b] = "None"]_vars

\* C15: stop() kills the process only after it asked it to terminate and
\* polled it GracePolls times while it ran; a process that still runs when
\* the polling ends is killed; stop() waits for the process it terminated,
\* the wait returns only when the process has exited, and only then does
\* stop() go on and return.
C15_TerminateThenKillAfterDeadline ==
    [][\A b \in Browsers :
          /\ "kill" \in StepsOf(stp'[b]) \ StepsOf(stp[b]) =>
                /\ "terminate" \in StepsOf(stp[b])
                /\ stp[b].polls = GracePolls
                /\ process[b] = "running"
          /\ stp[b].pc # "wait" /\ stp'[b].pc = "wait" /\ process[b] = "running" =>
                "kill" \in StepsOf(stp'[b])
          /\ "wait" \in StepsOf(stp'[b]) \ StepsOf(stp[b]) =>
                process[b] \in {"exited", "reaped"}
          /\ StopEnding(b) /\ stp'[b].out = "returned" /\ "terminate" \in StepsOf(stp[b]) =>
                "wait" \in StepsOf(stp[b])]_vars

\* C15 witness: a stop() has returned that terminated a process, polled it
\* GracePolls times, killed it and waited for it
C15_Witness ==
    \E b \in Browsers :
        /\ stp[b].out = "returned"
        /\ stp[b].polls = GracePolls
        /\ {"terminate", "kill", "wait"} \subseteq StepsOf(stp[b])

\* C16: when a stop() call returns, Browser.targets holds no record.
C16_NoRecordAfterStop ==
    [][\A b \in Browsers : StopEnding(b) /\ stp'[b].out = "returned" =>
          targets'[b] = <<>>]_vars

\* C17: a user-supplied user-data-dir is never deleted; when a stop() call
\* returns on a Browser whose directory the library generated, the directory
\* is no longer there; a stop() call makes at most CleanupAttempts removal
\* attempts.
C17_ProfileReclaimedIffGenerated ==
    [][\A b \in Browsers :
          /\ profile[b].custom => profile'[b] = profile[b]
          /\ stp'[b].rm <= CleanupAttempts
          /\ StopEnding(b) /\ stp'[b].out = "returned" /\ ~profile'[b].custom =>
                profile'[b].dir # "exists"]_vars

\* C18: on a started Browser at rest, "for tab in browser" sees every record
\* of type page exactly once, earlier-made records first, and ends without
\* an exception; reversed(browser) gives the same records in the opposite
\* order.
C18_IterationYieldsPagesInOrder ==
    \A b \in Browsers :
        result[b].state = "ok" /\ Quiescent(b) =>
            LET loop == ForTabInBrowser(targets[b])
                pages == tabs(targets[b])
            IN /\ loop.raised = "none"
               /\ loop.yielded = pages
               /\ \A i, j \in 1..Len(loop.yielded) :
                     i < j => loop.yielded[i].serial < loop.yielded[j].serial
               /\ Len(__reversed__(targets[b])) = Len(pages)
               /\ \A k \in 1..Len(pages) :
                     __reversed__(targets[b])[k] = loop.yielded[Len(pages) + 1 - k]

\* C19: when the N get(url, new_window=True) calls made so far have all
\* returned, the registry holds exactly N records of type page beyond those
\* it had, with pairwise distinct target-ids; call k returned the record
\* whose target-id is the one of its createTarget reply; and "for tab in
\* browser" sees those records in the order of the calls.
C19_NewWindowsAreRegisteredInOrder ==
    \A b \in Browsers :
        AllNewWindows(b) =>
            LET log == getc[b].log
                new == SelectSeq(targets[b], IsWindow)
                loop == ForTabInBrowser(targets[b])
            IN /\ Len(new) = Len(log)
               /\ \A i, j \in 1..Len(new) : i # j => ~SameId(new[i], new[j])
               /\ \A k \in 1..Len(log) :
                     \E i \in 1..Len(targets[b]) :
                        /\ targets[b][i].serial = log[k].serial
                        /\ targets[b][i].target.type_ = "page"
                        /\ targets[b][i].target.target_id = new[k].target.target_id
                        /\ log[k].tid = new[k].target.target_id
               /\ Len(log) > 0 => loop.raised = "none"
               /\ IdSeq(SelectSeq(loop.yielded, IsWindow)) = [k \in 1..Len(log) |-> log[k].tid]

\* C19 witness: MaxGets get(url, new_window=True) calls have returned
C19_Witness ==
    \E b \in Browsers :
        /\ AllNewWindows(b)
        /\ Len(getc[b].log) = MaxGets
        /\ Len(SelectSeq(targets[b], IsWindow)) = MaxGets

\* C20: a get(url) call returns only with a TargetInfoChanged event whose
\* url is the url it asked for and whose target-id is the one of the record
\* it returns; a get() call that waits without such an event ends with
\* TimeoutError.
C20_GetReturnsOnItsOwnNavigation ==
    [][\A b \in Browsers : GetReturn(b) =>
          /\ getc[b].by.url = getc[b].url
          /\ getc[b].by.target_id = getc[b].tid]_vars

\* C21: when the lang option is set to a tag, start() goes on to launch the
\* browser, and the params it passes to the process contain --lang=<tag>
C21_LangReachesLaunchArgs ==
    \A b \in Browsers :
        (Launching(b) /\ objs[cfgref[b]].lang # None)
            => /\ launch[b].out = "started"
               /\ InList(LangArg(objs[cfgref[b]]), launch[b].params)

\* C22: an argument naming headless, the data dir, no-sandbox or lang is
\* refused with an error and leaves Config._browser_args as it was, whether
\* it comes by add_argument or by the browser_args option (so no Config
\* holds one); any other argument is accepted and appended
C22_ReservedFlagsAreRejected ==
    /\ said.op = "add_argument" =>
          IF NamesOption(said.arg)
          THEN said.out = "ValueError" /\ objs["caller"]._browser_args = said.before
          ELSE said.out = "ok" /\ objs["caller"]._browser_args = Append(said.before, said.arg)
    /\ objs["caller"].made =>
          \A i \in 1..Len(objs["caller"]._browser_args) :
              ~NamesOption(objs["caller"]._browser_args[i])

\* C23 (as amended): in the list config() returns every argument of the
\* caller is present; the list starts with the default arguments, and the
\* caller's arguments that are not among the arguments the Config puts first
\* stand after all of those, in the order in which they were supplied
C23_NewUserArgsFollowDefaults ==
    said.op = "__call__" =>
        LET first == first_args(objs["caller"])
        IN /\ \A i \in 1..Len(said.before) : InList(said.before[i], said.args)
           /\ SubSeq(said.args, 1, Len(_default_browser_args)) = _default_browser_args
           /\ SubSeq(said.args, 1, Len(first)) = first
           /\ InOrderAfter(NotFirst(said.before, objs["caller"]), said.args, Len(first))

\* config() was called on a Config holding a default argument and another one
C23_Witness ==
    /\ said.op = "__call__"
    /\ Len(said.before) = 2
    /\ said.before[2] = no_first_run
    /\ said.before[1] = mute_audio

\* C23 (as stated): every argument of the caller is present in the list
\* config() returns, after all default arguments, in the order supplied
C23_UserArgsFollowDefaults ==
    said.op = "__call__" =>
        /\ \A i \in 1..Len(said.before) : InList(said.before[i], said.args)
        /\ InOrderAfter(said.before, said.args, Len(_default_browser_args))

\* C24: the list config() returns holds --no-sandbox exactly when the sandbox
\* option of the Config is false, and a Config made by a root process has a
\* false sandbox option whatever the caller passed
C24_NoSandboxIffSandboxOff ==
    /\ said.op = "__call__" => (InList(no_sandbox, said.args) <=> ~objs["caller"].sandbox)
    /\ (objs["caller"].made /\ root) => ~objs["caller"].sandbox

\* C25: save(file, pattern) writes to the file exactly the cookies that have
\* a field matching the pattern, in the order fetched (all of them for the
\* default pattern), and no cookie that matches nowhere
C25_SaveWritesMatchingCookies ==
    jar.out = "ok" =>
        /\ files.written
        /\ files.cookies = SelectSeq(jar.cookies,
                                     LAMBDA cookie : HasMatchingField(cookie, jar.pattern))

\* C26: every registration event_type(method)(cls) leaves cls as the one
\* class of that method name in get_event_types() and the other names as
\* they were, and at any time is_event_type(cls) is true exactly of the
\* classes that some method name is mapped to
C26_RegistryMapsEachMethodToOneClass ==
    /\ [](\A cls \in Classes : is_event_type(cls) <=> Mapped(cls))
    /\ [][\A method \in Methods, cls \in Classes :
            event_type(method, cls) =>
                /\ get_event_types'[method] = cls
                /\ \A m \in DOMAIN get_event_types \ {method} :
                       get_event_types'[m] = get_event_types[m]]_vars

\* C27: no two requests sent on one Connection share a message id, and a
\* future is only ever completed by the response to its own request: the
\* response to a cancelled send never completes a later send
C27_MessageIdsAreNeverReused ==
    /\ \A s, t \in 1..Len(sends) :
          (s # t /\ sends[s].conn = sends[t].conn /\ sends[s].id # 0 /\ sends[t].id # 0)
              => sends[s].id # sends[t].id
    /\ \A s \in 1..Len(sends) : sends[s].by \in {0, s}

\* a send was cancelled, its response came late and was dropped, and a later
\* send on the same open Connection was completed by its response
C27_Witness ==
    \E s, t \in 1..Len(sends) :
        /\ s < t
        /\ sends[s].conn = sends[t].conn
        /\ cstate[sends[s].conn] = "open"
        /\ sends[s].fut = "cancelled"
        /\ Answered(s)
        /\ sends[t].fut = "done"

\* C28 (as amended): every send future is completed exactly once (never
\* twice, and never left pending once the Connection is closed); its pending
\* reply is there from the send until the future is completed and is removed
\* exactly once, by the matching response, by the cancellation of the send or
\* by transport close
C28_EveryFutureCompletedOnce ==
    \A s \in 1..Len(sends) :
        LET r == sends[s]
        IN /\ r.completions <= 1
           /\ r.removed <= 1
           /\ r.fut = "pending" <=> r.completions = 0
           /\ r.fut = "pending" <=> EntryOf(s) # {}
           /\ (r.id # 0 /\ r.fut # "pending") => (r.removed = 1 /\ r.how \in Removals)
           /\ r.how = "response" => r.by = s
           /\ cstate[r.conn] = "closed" => r.fut # "pending"

\* a closed Connection whose three sends went the three ways
C28_Witness ==
    /\ Len(sends) = 3
    /\ \A s \in 1..3 : sends[s].conn = "k1"
    /\ cstate["k1"] = "closed"
    /\ {sends[s].how : s \in 1..3} = Removals

\* C28 (as stated): as above, with the pending reply removed by the matching
\* response or by transport close only
C28_RemovedByResponseOrClose ==
    \A s \in 1..Len(sends) :
        LET r == sends[s]
        IN /\ r.completions <= 1
           /\ r.removed <= 1
           /\ r.fut = "pending" <=> r.completions = 0
           /\ r.fut = "pending" <=> EntryOf(s) # {}
           /\ (r.id # 0 /\ r.fut # "pending") =>
                  (r.removed = 1 /\ r.how \in {"response", "close"})
           /\ r.how = "response" => r.by = s
           /\ cstate[r.conn] = "closed" => r.fut # "pending"

\* C29: no step of a Browser (its construction, its start() with the host
\* and port it picks and the arguments it adds, its stop()) changes the Config
\* object the caller passed in, nor the Config of another Browser made from
\* the same object
C29_BrowserWorksOnItsOwnCopy ==
    [][\A b \in Browsers :
          StepOf(b) =>
              /\ objs'["caller"] = objs["caller"]
              /\ \A c \in Browsers \ {b} :
                     launch[c].out # "none" =>
                         (cfgref'[c] = cfgref[c] /\ objs'[cfgref[c]] = objs[cfgref[c]])]_vars

\* two Browsers started from one Config with an extension and no host: each
\* holds the host, the port and the --load-extension argument it added, the
\* caller's Config holds neither
C29_Witness ==
    /\ \A b \in Browsers :
          /\ launch[b].out = "started"
          /\ objs[cfgref[b]].host_port = "auto"
          /\ objs[cfgref[b]]._browser_args = <<LoadArg(objs["caller"])>>
    /\ objs["caller"].host_port = "none"
    /\ objs["caller"]._extensions # <<>>
    /\ objs["caller"]._browser_args = <<>>

\* C30: of a Config made without user_data_dir, whatever the caller did with
\* it before (calling it, printing it), every running Browser made from it has
\* a profile directory that no other running Browser has and that is on
\* disk: the stop() of another Browser did not remove it
C30_TemplateGivesEachBrowserItsOwnProfile ==
    (objs["caller"].made /\ ~objs["caller"]._custom_data_dir) =>
        \A b \in Browsers :
            launch[b].running =>
                /\ objs[cfgref[b]]._user_data_dir \in dirs.live
                /\ \A c \in Browsers \ {b} :
                       launch[c].running =>
                           objs[cfgref[c]]._user_data_dir # objs[cfgref[b]]._user_data_dir

\* C31: a start() call on a Browser whose process runs spawns no process,
\* makes no Browser and no root Connection, leaves the registry, the Config,
\* the Connection and its handlers as they were, starts no coroutine step of
\* start(), and returns the Browser it was called on
C31_StartOnRunningBrowserIsIgnored ==
    [][\A b \in Browsers :
          StartOnRunning(b) =>
              /\ process' = process /\ born' = born /\ srv' = srv
              /\ connection' = connection /\ handlers' = handlers /\ info' = info
              /\ targets' = targets /\ nextSerial' = nextSerial
              /\ config' = config /\ profile' = profile
              /\ spc' = spc /\ tries' = tries
              /\ result' = Set(result, b, [result[b] EXCEPT !.returned = b])]_vars

\* a started Browser with its registry seeded and its process running, whose
\* last start() call returned at once with the Browser itself
C31_Witness ==
    \E b \in Browsers :
        /\ result[b].returned = b
        /\ result[b].spawned /\ process[b] = "running"
        /\ connection[b] = "open" /\ targets[b] # <<>>

\* C32: get(), update_targets(), grant_all_permissions() and the CookieJar
\* operations called on a Browser that was never started or that stop() has
\* stopped end with the RuntimeError 'Browser not yet started', send no
\* command and leave the registry as it was
C32_OperationsNeedAStartedBrowser ==
    [][\A b \in Browsers :
          NotRunning(b) =>
              /\ GetCallOn(b) =>
                     /\ getc'[b].out = "RuntimeError"
                     /\ targets' = targets /\ srv' = srv
              /\ UseCallOn(b) =>
                     /\ use'.out = "RuntimeError" /\ ~use'.sent
                     /\ targets' = targets /\ srv' = srv]_vars

\* C33: whenever no get() call is in progress, however the calls made so far
\* ended, no get_handler of a get() call is left among the TargetInfoChanged
\* handlers of the root Connection, and the handlers start() installed are
\* the registered ones
C33_GetLeavesNoHandlerBehind ==
    \A b \in Browsers :
        getc[b].pc = "idle" =>
            /\ getc[b].added = 0
            /\ result[b].state = "ok" => handlers[b] = InstalledHandlers

\* C34: of the loops over a Browser with page records, whether one runs
\* inside the other or beside it, each gets the page records in registry
\* order, none twice and none skipped, and ends without an exception once it
\* has got them all
C34_LoopsDoNotDisturbEachOther ==
    \A l \in Loops :
        iter.loops[l].over # <<>> =>
            /\ (iter.loops[l].pc = "running" /\ SameTabs("b1", l))
                   => Prefix(iter.loops[l].yielded, iter.loops[l].over)
            /\ EndedOver("b1", l)
                   => /\ iter.loops[l].raised = "none"
                      /\ iter.loops[l].yielded = iter.loops[l].over

\* C35: a loop over a Browser without a page record ends without an exception
\* and without a tab; and once the loops that began have all run to their
\* end, the Browser has no _i left
C35_EmptyIterationAndNoCursorLeft ==
    /\ \A l \in Loops :
           (EndedOver("b1", l) /\ iter.loops[l].over = <<>>)
               => (iter.loops[l].raised = "none" /\ iter.loops[l].yielded = <<>>)
    /\ (/\ \A l \in Loops : iter.loops[l].pc \in {"idle", "done"}
        /\ \E l \in Loops : iter.loops[l].pc = "done")
           => iter._i = NoCursor

\* C36: between the calls of start() and stop(), Browser.stopped is false
\* exactly when start() has opened the root Connection and no stop() has
\* completed since, whether the Browser spawned its browser or attached to
\* one, and the at-exit hook calls stop() on every such Browser
C36_StoppedTellsWhetherTheBrowserRuns ==
    \A b \in Browsers :
        (born[b] /\ spc[b] = "idle" /\ stp[b].pc = "idle") =>
            /\ ~is_stopped(b) <=> StartedNotStopped(b)
            /\ StartedNotStopped(b) => browser_atexit(b)[1] = "stop"
====
